---- MODULE Spec2Model ----
(***************************************************************************)
(* A model of github.com/weberc2/httpeasy.                                 *)
(*                                                                         *)
(* Two specifications share this module:                                   *)
(*                                                                         *)
(*   Spec      the request pipeline of Handler.HTTP (httpeasy.go): one     *)
(*             position per statement group of the returned closure, the   *)
(*             transport (http.ResponseWriter) and the log sink.           *)
(*   SpecResp  the Response value and its derivations WithHeaders,         *)
(*             WithCookies and WithLogging over a Go heap: maps are        *)
(*             references, slices are (array, len, cap) triples.           *)
(*                                                                         *)
(* Byte strings are sequences of one-character strings.  Time (Started,    *)
(* Duration) is left out of the log record: no property here reads it.     *)
(***************************************************************************)
EXTENDS Integers, Sequences, FiniteSets, TLC

\* Bounds of the model.
MaxLogLen == 2
MaxHdrVals == 2
MaxCookies == 2
MaxBody == 3
MaxOps == 2

\* http.StatusInternalServerError, http.StatusOK, http.StatusNotFound.
StatusInternalServerError == 500
StatusOK == 200
StatusNotFound == 404

VARIABLES
    req,        \* per request: the inbound *http.Request (Method, URL, Header, Body)
    h,          \* per request: what the Handler h does with it (reads, rsp)
    pc,         \* per request: position in the closure returned by Handler.HTTP
    limit,      \* per request: i, the parsed Content-Length
    rsp,        \* per request: the local variable rsp
    writerTo,   \* per request: the local variable writerTo
    err,        \* per request: the local variable err
    todo,       \* per request: keys of rsp.Headers / index of rsp.Cookies still to copy
    w,          \* per request: the http.ResponseWriter (header, status, body)
    bodyRead,   \* per request: the bytes the handler got from Request.Body
    closed,     \* per request: r.Body.Close() has run
    events,     \* per request: history of the pipeline's calls, in order
    sink,       \* the calls made to the LogFunc, in order
    heap,       \* SpecResp: the Go heap (header maps, backing arrays)
    regs,       \* SpecResp: Response values held in program variables
    hist,       \* SpecResp: the derivations performed, in order
    ser,        \* SpecSer: the Serializer under test
    readers,    \* SpecSer: the strings.Reader / bytes.Reader / bytes.Buffer objects
    prod,       \* SpecSer: what the last invocation returned (io.WriterTo, error)
    outs,       \* SpecSer: the bytes each WriteTo put into its buffer, in order
    hcall,      \* SpecHelpers: the helper call under test
    hrsp,       \* SpecHelpers: the Response the helper returned
    rq,         \* SpecReq: the Request under test
    calls,      \* SpecReq: the accessor calls made on it and their results
    jlog,       \* SpecLog: the io.Writer of JSONLog, stderr, and the calls made
    prom,       \* SpecProm: the PromRouter (routes, mux, Durations) and its calls
    herr        \* SpecErr: one HandleError call (arguments, position, result)

pipeVars == <<req, h, pc, limit, rsp, writerTo, err, todo, w, bodyRead, closed,
              events, sink>>
respVars == <<heap, regs, hist>>
auxVars == <<jlog, prom, herr>>
libVars == <<ser, readers, prod, outs, hcall, hrsp, rq, calls, jlog, prom, herr>>
vars == <<req, h, pc, limit, rsp, writerTo, err, todo, w, bodyRead, closed,
          events, sink, heap, regs, hist, ser, readers, prod, outs, hcall, hrsp,
          rq, calls, jlog, prom, herr>>

-----------------------------------------------------------------------------
\* Helpers on sequences and maps.

Min(a, b) == IF a < b THEN a ELSE b

Prefix(s, n) == SubSeq(s, 1, n)

IsPrefix(p, s) == Len(p) <= Len(s) /\ Prefix(s, Len(p)) = p

Range(s) == {s[i] : i \in DOMAIN s}

\* A nil or empty Go map.
EmptyMap == [k \in {} |-> <<>>]

\* m[k] of a Go map: the zero value (nil slice) when k is absent.
MapGet(m, k) == IF k \in DOMAIN m THEN m[k] ELSE <<>>

\* m[k] = v of a Go map.
MapSet(m, k, v) == [x \in DOMAIN m \cup {k} |-> IF x = k THEN v ELSE m[x]]

-----------------------------------------------------------------------------
\* Errors are their descriptions; NoErr is the nil error.
NoErr == "nil"

\* strings.NewReader("500 Internal Server Error")
FallbackBody ==
    <<"5", "0", "0", " ", "I", "n", "t", "e", "r", "n", "a", "l", " ",
      "S", "e", "r", "v", "e", "r", " ", "E", "r", "r", "o", "r">>

-----------------------------------------------------------------------------
\* strconv.ParseInt(s, 10, 64) on a string of characters.

Digits == {"0", "1", "2", "3", "4", "5", "6", "7", "8", "9"}

DigitVal(c) ==
    CASE c = "0" -> 0 [] c = "1" -> 1 [] c = "2" -> 2 [] c = "3" -> 3
      [] c = "4" -> 4 [] c = "5" -> 5 [] c = "6" -> 6 [] c = "7" -> 7
      [] c = "8" -> 8 [] c = "9" -> 9

\* The digits of s read as a base 10 number, most significant first.
RECURSIVE ParseUint(_, _)
ParseUint(s, acc) ==
    IF s = <<>> THEN acc ELSE ParseUint(Tail(s), acc * 10 + DigitVal(Head(s)))

\* [i, err]: an optional sign, then one or more digits; anything else is a
\* syntax error.  (The strings of the model are too short to leave int64.)
ParseInt(s) ==
    LET signed == s # <<>> /\ Head(s) \in {"+", "-"}
        neg    == s # <<>> /\ Head(s) = "-"
        ds     == IF signed THEN Tail(s) ELSE s
    IN  IF ds = <<>> \/ \E k \in DOMAIN ds : ds[k] \notin Digits
        THEN [i |-> 0, err |-> "strconv.ParseInt: invalid syntax"]
        ELSE [i   |-> IF neg THEN 0 - ParseUint(ds, 0) ELSE ParseUint(ds, 0),
              err |-> NoErr]

\* http.Header.Get: the first value of the key, "" when there is none.
HeaderGet(hdr, key) ==
    IF key \in DOMAIN hdr /\ hdr[key] # <<>> THEN hdr[key][1] ELSE <<>>

\* ioutil.ReadAll(io.LimitReader(body, n)): a LimitedReader with N <= 0
\* reports EOF at once, otherwise it passes on at most N bytes.
LimitReaderUnbounded(body, n) == body

LimitReader(body, n) == IF n <= 0 THEN <<>> ELSE Prefix(body, Min(n, Len(body)))

-----------------------------------------------------------------------------
\* Serializers.  A Serializer is a kind and the bytes it holds; invoking it
\* yields (io.WriterTo, error).

NilWriterTo == [set |-> FALSE, bytes |-> <<>>]

NewReader(b) == [set |-> TRUE, bytes |-> b]

\* The zero value of the field Response.Data.
NilData == [kind |-> "nil", body |-> <<>>]

String(b) == [kind |-> "String", body |-> b]

\* JSON(v) for a v that json.Marshal encodes to b.
JSON(b) == [kind |-> "JSON", body |-> b]

\* JSON(v) for a v that json.Marshal rejects.
JSONUnsupported == [kind |-> "JSONUnsupported", body |-> <<>>]

\* HTMLTemplate / TextTemplate whose Execute writes b and succeeds.
Template(b) == [kind |-> "Template", body |-> b]

\* HTMLTemplate / TextTemplate whose Execute writes b and then fails.
TemplateFailing(b) == [kind |-> "TemplateFailing", body |-> b]

\* s(): the (io.WriterTo, error) pair a set Serializer returns.
Invoke(s) ==
    CASE s.kind = "JSONUnsupported" ->
            [writerTo |-> NilWriterTo, err |-> "json: unsupported type"]
      [] s.kind = "TemplateFailing" ->
            [writerTo |-> NewReader(s.body), err |-> "template: exec failed"]
      [] OTHER ->
            [writerTo |-> NewReader(s.body), err |-> NoErr]

-----------------------------------------------------------------------------
\* The Response value as the pipeline reads it.

ZeroResponse ==
    [Status |-> 0, Data |-> NilData, Logging |-> <<>>, Headers |-> EmptyMap,
     Cookies |-> <<>>]

\* The struct appended to rsp.Logging when Content-Length does not parse
\* (the Context string without its backquotes).
ContentLengthNote(e) ==
    [Context |-> "Invalid or missing Content-Length header; defaulting to Content-Length=0",
     Error   |-> e]

\* The body of `if err != nil` after rsp.Data(): status, body and Logging are
\* replaced, the handler's Logging is nested in the one new record.
SerializeFailureKeepStatus(r, e) ==
    [rsp      |-> [r EXCEPT !.Logging =
                      <<[Context         |-> "Error serializing response data",
                         Error           |-> e,
                         OriginalLogging |-> r.Logging]>>],
     writerTo |-> NewReader(FallbackBody)]

SerializeFailureDropLogging(r, e) ==
    [rsp      |-> [r EXCEPT !.Status = StatusInternalServerError,
                            !.Logging =
                      <<[Context         |-> "Error serializing response data",
                         Error           |-> e,
                         OriginalLogging |-> <<>>]>>],
     writerTo |-> NewReader(FallbackBody)]

SerializeFailureDropHeaders(r, e) ==
    [rsp      |-> [ZeroResponse EXCEPT !.Status = StatusInternalServerError,
                                       !.Data = r.Data,
                                       !.Logging =
                      <<[Context         |-> "Error serializing response data",
                         Error           |-> e,
                         OriginalLogging |-> r.Logging]>>],
     writerTo |-> NewReader(FallbackBody)]

SerializeFailure(r, e) ==
    [rsp      |-> [r EXCEPT !.Status = StatusInternalServerError,
                            !.Logging =
                      <<[Context         |-> "Error serializing response data",
                         Error           |-> e,
                         OriginalLogging |-> r.Logging]>>],
     writerTo |-> NewReader(FallbackBody)]

\* http.Cookie.String() of a cookie with a valid name and value.
CookieString(c) == c.Name \o "=" \o c.Value

\* http.Header.Add: append to the values of the key.
HeaderAdd(hdr, key, value) == MapSet(hdr, key, Append(MapGet(hdr, key), value))

RECURSIVE HeaderAddAll(_, _, _)
HeaderAddAll(hdr, key, values) ==
    IF values = <<>> THEN hdr
    ELSE HeaderAddAll(HeaderAdd(hdr, key, Head(values)), key, Tail(values))

-----------------------------------------------------------------------------
\* The inputs of the pipeline: inbound requests and handler results.

\* Values of the Content-Length header: "2", "5", "0", "-1", "+1", "1x".
ContentLengths ==
    {<<"2">>, <<"5">>, <<"0">>, <<"-", "1">>, <<"+", "1">>, <<"1", "x">>}

RequestHeaders ==
    {EmptyMap} \cup {[k \in {"Content-Length"} |-> <<v>>] : v \in ContentLengths}

\* A body stream of n bytes.
Stream(n) == [i \in 1..n |-> i]

Requests ==
    [Method : {"GET"}, URL : {"/a"}, Header : RequestHeaders,
     Body : {Stream(1), Stream(MaxBody)}]

\* n distinct loggable values, n distinct header values, n distinct cookies.
LogSeq(n) == [i \in 1..n |-> [value |-> "log" \o ToString(i)]]

ValSeq(n) == [i \in 1..n |-> "v" \o ToString(i)]

CookieSeq(n) == [i \in 1..n |-> [Name |-> "c" \o ToString(i), Value |-> "x"]]

HandlerHeaders ==
    {EmptyMap}
    \cup {[k \in {"X"} |-> ValSeq(n)] : n \in 1..MaxHdrVals}
    \cup {[k \in {"X", "Y"} |-> IF k = "X" THEN ValSeq(1) ELSE <<"w">>]}

HandlerData ==
    {NilData, String(<<"h", "i">>), JSON(<<"{", "}">>), Template(<<"<", "p", ">">>),
     JSONUnsupported, TemplateFailing(<<"<", "p">>)}

\* The Response values a handler may return.
Responses ==
    [Status  : {StatusOK, StatusNotFound},
     Data    : HandlerData,
     Logging : {LogSeq(n) : n \in 0..MaxLogLen},
     Headers : HandlerHeaders,
     Cookies : {CookieSeq(n) : n \in 0..MaxCookies}]

Handlers == [rsp : Responses]

-----------------------------------------------------------------------------
\* The transport.

\* A fresh http.ResponseWriter: no header, status not committed, no body.
NewResponseWriter == [header |-> EmptyMap, status |-> 0, body |-> <<>>]

\* How many of the bytes of b the transport takes in the one Write that
\* WriteTo makes: all of them, or fewer with an error.  An empty b is not
\* written at all.
WriteOutcomes(b) ==
    IF b = <<>> THEN {0} ELSE {0, Len(b) \div 2, Len(b)}

-----------------------------------------------------------------------------
\* Handler.HTTP: the closure it returns, statement group by statement group.

Event(e, arg) == [e |-> e, arg |-> arg]

\* contentLength := r.Header.Get(...); i, err := strconv.ParseInt(...);
\* if err != nil { i = 0; rsp.Logging = append(rsp.Logging, note) }
ParseContentLength(r) ==
    /\ pc[r] = "start"
    /\ LET p == ParseInt(HeaderGet(req[r].Header, "Content-Length"))
       IN  /\ limit' = [limit EXCEPT ![r] = IF p.err # NoErr THEN 0 ELSE p.i]
           /\ err' = [err EXCEPT ![r] = p.err]
           /\ rsp' = [rsp EXCEPT ![r] =
                        IF p.err # NoErr
                        THEN [ZeroResponse EXCEPT
                                !.Logging = Append(@, ContentLengthNote(p.err))]
                        ELSE ZeroResponse]
    /\ pc' = [pc EXCEPT ![r] = "call"]
    /\ UNCHANGED <<req, h, writerTo, todo, w, bodyRead, closed, events, sink>>
    /\ UNCHANGED <<respVars, libVars>>

\* rsp = h(Request{Vars, Body: io.LimitReader(r.Body, i), Headers, URL})
CallHandlerTwice(r) ==
    /\ pc[r] = "call"
    /\ rsp' = [rsp EXCEPT ![r] = h[r].rsp]
    /\ bodyRead' = [bodyRead EXCEPT ![r] = LimitReader(req[r].Body, limit[r])]
    /\ events' = [events EXCEPT ![r] = @ \o <<Event("handler", ""), Event("handler", "")>>]
    /\ pc' = [pc EXCEPT ![r] = "serialize"]
    /\ UNCHANGED <<req, h, limit, writerTo, err, todo, w, closed, sink>>
    /\ UNCHANGED <<respVars, libVars>>

CallHandler(r) ==
    /\ pc[r] = "call"
    /\ rsp' = [rsp EXCEPT ![r] = h[r].rsp]
    /\ bodyRead' = [bodyRead EXCEPT ![r] = LimitReader(req[r].Body, limit[r])]
    /\ events' = [events EXCEPT ![r] = Append(@, Event("handler", ""))]
    /\ pc' = [pc EXCEPT ![r] = "serialize"]
    /\ UNCHANGED <<req, h, limit, writerTo, err, todo, w, closed, sink>>
    /\ UNCHANGED <<respVars, libVars>>

\* writerTo, err := rsp.Data() with Data unset: calling a nil func panics;
\* the deferred r.Body.Close() runs and the closure is left.
SerializePanic(r) ==
    /\ pc[r] = "serialize"
    /\ rsp[r].Data = NilData
    /\ pc' = [pc EXCEPT ![r] = "panicked"]
    /\ closed' = [closed EXCEPT ![r] = TRUE]
    /\ UNCHANGED <<req, h, limit, rsp, writerTo, err, todo, w, bodyRead, events, sink>>
    /\ UNCHANGED <<respVars, libVars>>

\* writerTo, err := rsp.Data(); if err != nil { ... }
Serialize(r) ==
    /\ pc[r] = "serialize"
    /\ rsp[r].Data # NilData
    /\ LET res == Invoke(rsp[r].Data)
           f   == SerializeFailure(rsp[r], res.err)
           new == IF res.err # NoErr THEN f.rsp ELSE rsp[r]
       IN  /\ err' = [err EXCEPT ![r] = res.err]
           /\ rsp' = [rsp EXCEPT ![r] = new]
           /\ writerTo' = [writerTo EXCEPT ![r] =
                             IF res.err # NoErr THEN f.writerTo ELSE res.writerTo]
           /\ todo' = [todo EXCEPT ![r] = [keys |-> DOMAIN new.Headers, next |-> 1]]
    /\ events' = [events EXCEPT ![r] = Append(@, Event("serializer", ""))]
    /\ pc' = [pc EXCEPT ![r] = "emit"]
    /\ UNCHANGED <<req, h, limit, w, bodyRead, closed, sink>>
    /\ UNCHANGED <<respVars, libVars>>

\* One iteration of `for key, values := range rsp.Headers`: Go visits the
\* keys of a map in no fixed order.
CopyHeader(r) ==
    /\ pc[r] = "emit"
    /\ \E key \in todo[r].keys :
         /\ w' = [w EXCEPT ![r].header = HeaderAddAll(@, key, rsp[r].Headers[key])]
         /\ todo' = [todo EXCEPT ![r].keys = @ \ {key}]
         /\ events' = [events EXCEPT ![r] = Append(@, Event("header", key))]
    /\ UNCHANGED <<req, h, pc, limit, rsp, writerTo, err, bodyRead, closed, sink>>
    /\ UNCHANGED <<respVars, libVars>>

\* The first loop is over.
HeadersCopied(r) == todo[r].keys = {}

\* One iteration of `for _, cookie := range rsp.Cookies`.
SetCookie(r) ==
    /\ pc[r] = "emit"
    /\ HeadersCopied(r)
    /\ todo[r].next <= Len(rsp[r].Cookies)
    /\ LET cookie == rsp[r].Cookies[todo[r].next]
       IN  /\ w' = [w EXCEPT ![r].header =
                      HeaderAdd(@, "Set-Cookie", CookieString(cookie))]
           /\ events' = [events EXCEPT ![r] = Append(@, Event("cookie", cookie.Name))]
    /\ todo' = [todo EXCEPT ![r].next = @ + 1]
    /\ UNCHANGED <<req, h, pc, limit, rsp, writerTo, err, bodyRead, closed, sink>>
    /\ UNCHANGED <<respVars, libVars>>

\* Both loops are over.
CookiesSetEarly(r) == HeadersCopied(r) /\ todo[r].next >= Len(rsp[r].Cookies)

CookiesSet(r) == HeadersCopied(r) /\ todo[r].next > Len(rsp[r].Cookies)

\* w.WriteHeader(rsp.Status)
WriteHeader(r) ==
    /\ pc[r] = "emit"
    /\ CookiesSet(r)
    /\ w' = [w EXCEPT ![r].status = rsp[r].Status]
    /\ events' = [events EXCEPT ![r] = Append(@, Event("status", ""))]
    /\ pc' = [pc EXCEPT ![r] = "write"]
    /\ UNCHANGED <<req, h, limit, rsp, writerTo, err, todo, bodyRead, closed, sink>>
    /\ UNCHANGED <<respVars, libVars>>

\* _, err = writerTo.WriteTo(w)
WriteToKeepErr(r) ==
    /\ pc[r] = "write"
    /\ \E n \in WriteOutcomes(writerTo[r].bytes) :
         w' = [w EXCEPT ![r].body = @ \o Prefix(writerTo[r].bytes, n)]
    /\ events' = [events EXCEPT ![r] = Append(@, Event("body", ""))]
    /\ pc' = [pc EXCEPT ![r] = "log"]
    /\ UNCHANGED <<req, h, limit, rsp, writerTo, err, todo, bodyRead, closed, sink>>
    /\ UNCHANGED <<respVars, libVars>>

WriteTo(r) ==
    /\ pc[r] = "write"
    /\ \E n \in WriteOutcomes(writerTo[r].bytes) :
         /\ w' = [w EXCEPT ![r].body = @ \o Prefix(writerTo[r].bytes, n)]
         /\ err' = [err EXCEPT ![r] =
                      IF n < Len(writerTo[r].bytes) THEN "write: broken pipe" ELSE NoErr]
    /\ events' = [events EXCEPT ![r] = Append(@, Event("body", ""))]
    /\ pc' = [pc EXCEPT ![r] = "log"]
    /\ UNCHANGED <<req, h, limit, rsp, writerTo, todo, bodyRead, closed, sink>>
    /\ UNCHANGED <<respVars, libVars>>

\* The requestLog literal handed to log.
requestLogShared(r) ==
    LET first == CHOOSE x \in DOMAIN pc : \A y \in DOMAIN pc : x <= y
    IN  [Method          |-> req[r].Method,
         URL             |-> req[r].URL,
         RequestHeaders  |-> req[r].Header,
         ResponseHeaders |-> w[r].header,
         Status          |-> rsp[first].Status,
         Message         |-> rsp[first].Logging,
         WriteError      |-> err[r]]

requestLogHandlerStatus(r) ==
    [Method          |-> req[r].Method,
     URL             |-> req[r].URL,
     RequestHeaders  |-> req[r].Header,
     ResponseHeaders |-> w[r].header,
     Status          |-> h[r].rsp.Status,
     Message         |-> rsp[r].Logging,
     WriteError      |-> err[r]]

requestLog(r) ==
    [Method          |-> req[r].Method,
     URL             |-> req[r].URL,
     RequestHeaders  |-> req[r].Header,
     ResponseHeaders |-> w[r].header,
     Status          |-> rsp[r].Status,
     Message         |-> rsp[r].Logging,
     WriteError      |-> err[r]]

\* log(requestLog{...}); the closure returns and the deferred Close runs.
LogTwice(r) ==
    /\ pc[r] = "log"
    /\ sink' = sink \o <<requestLog(r), requestLog(r)>>
    /\ events' = [events EXCEPT ![r] = Append(@, Event("log", ""))]
    /\ closed' = [closed EXCEPT ![r] = TRUE]
    /\ pc' = [pc EXCEPT ![r] = "done"]
    /\ UNCHANGED <<req, h, limit, rsp, writerTo, err, todo, w, bodyRead>>
    /\ UNCHANGED <<respVars, libVars>>

Log(r) ==
    /\ pc[r] = "log"
    /\ sink' = Append(sink, requestLog(r))
    /\ events' = [events EXCEPT ![r] = Append(@, Event("log", ""))]
    /\ closed' = [closed EXCEPT ![r] = TRUE]
    /\ pc' = [pc EXCEPT ![r] = "done"]
    /\ UNCHANGED <<req, h, limit, rsp, writerTo, err, todo, w, bodyRead>>
    /\ UNCHANGED <<respVars, libVars>>

-----------------------------------------------------------------------------
\* The pipeline's specification: one request through the adapter.

RespIdle ==
    /\ heap = [maps |-> <<>>, arrays |-> <<>>]
    /\ regs = EmptyMap
    /\ hist = <<>>

\* No JSONLog sink, PromRouter or HandleError call under test.
AuxIdle ==
    /\ jlog = [w |-> <<>>, stderr |-> <<>>, calls |-> <<>>]
    /\ prom = [pc |-> "none"]
    /\ herr = [pc |-> "none"]

\* No Serializer, helper call or Request under test.
LibIdle ==
    /\ AuxIdle
    /\ ser = NilData
    /\ readers = <<>>
    /\ prod = [ref |-> 0, err |-> NoErr]
    /\ outs = <<>>
    /\ hcall = [helper |-> "none"]
    /\ hrsp = ZeroResponse
    /\ rq = [Headers |-> EmptyMap, Body |-> [data |-> <<>>, failAfter |-> 0 - 1]]
    /\ calls = <<>>

InitPipeline(R, Rq, Hs) ==
    /\ req \in [R -> Rq]
    /\ h \in [R -> Hs]
    /\ pc = [r \in R |-> "start"]
    /\ limit = [r \in R |-> 0]
    /\ rsp = [r \in R |-> ZeroResponse]
    /\ writerTo = [r \in R |-> NilWriterTo]
    /\ err = [r \in R |-> NoErr]
    /\ todo = [r \in R |-> [keys |-> {}, next |-> 1]]
    /\ w = [r \in R |-> NewResponseWriter]
    /\ bodyRead = [r \in R |-> <<>>]
    /\ closed = [r \in R |-> FALSE]
    /\ events = [r \in R |-> <<>>]
    /\ sink = <<>>

Init == InitPipeline({1}, Requests, Handlers) /\ RespIdle /\ LibIdle

Next ==
    \/ \E r \in DOMAIN pc : ParseContentLength(r)
    \/ \E r \in DOMAIN pc : CallHandler(r)
    \/ \E r \in DOMAIN pc : SerializePanic(r)
    \/ \E r \in DOMAIN pc : Serialize(r)
    \/ \E r \in DOMAIN pc : CopyHeader(r)
    \/ \E r \in DOMAIN pc : SetCookie(r)
    \/ \E r \in DOMAIN pc : WriteHeader(r)
    \/ \E r \in DOMAIN pc : WriteTo(r)
    \/ \E r \in DOMAIN pc : Log(r)

Spec == Init /\ [][Next]_vars

-----------------------------------------------------------------------------
\* The Response value on the Go heap.  heap.maps holds the http.Header maps
\* and heap.arrays the backing arrays of the Logging and Cookies slices, each
\* addressed by its index; reference 0 is nil.  A slice is (ptr, len, cap).

StatusSeeOther == 303

NilSlice == [ptr |-> 0, len |-> 0, cap |-> 0]

\* The zero value that fills the unused capacity of a new backing array.
NilValue == [nil |-> TRUE]

\* s[0:len(s)]
SliceValues(hp, s) == IF s.ptr = 0 THEN <<>> ELSE Prefix(hp.arrays[s.ptr], s.len)

\* append(s, vals...): in place when the capacity allows, which writes the
\* backing array s shares with every slice cut from it; otherwise into a new
\* array of twice the capacity, or of the needed length when that is more.
AppendSliceReversed(hp, s, vals) ==
    LET n   == s.len + Len(vals)
        rev == [i \in DOMAIN vals |-> vals[Len(vals) + 1 - i]]
    IN  [heap  |-> [hp EXCEPT !.arrays = Append(@, SliceValues(hp, s) \o rev)],
         slice |-> [ptr |-> Len(hp.arrays) + 1, len |-> n, cap |-> n]]

AppendSlice(hp, s, vals) ==
    LET n == s.len + Len(vals)
    IN  IF vals = <<>> THEN [heap |-> hp, slice |-> s]
        ELSE IF n <= s.cap
        THEN [heap  |-> [hp EXCEPT !.arrays[s.ptr] =
                           [i \in 1..s.cap |->
                              IF i > s.len /\ i <= n THEN vals[i - s.len] ELSE @[i]]],
              slice |-> [s EXCEPT !.len = n]]
        ELSE LET newcap == IF n > 2 * s.cap THEN n ELSE 2 * s.cap
                 array  == SliceValues(hp, s) \o vals
                             \o [i \in 1..(newcap - n) |-> NilValue]
             IN  [heap  |-> [hp EXCEPT !.arrays = Append(@, array)],
                  slice |-> [ptr |-> Len(hp.arrays) + 1, len |-> n, cap |-> newcap]]

\* func (r Response) WithHeaders(headers http.Header) Response: r is a copy
\* of the receiver's struct, r.Headers the receiver's own map unless nil.
WithHeadersOverwrite(hp, r, headers) ==
    LET fresh == r.Headers = 0
        hp1   == IF fresh THEN [hp EXCEPT !.maps = Append(@, EmptyMap)] ELSE hp
        ref   == IF fresh THEN Len(hp.maps) + 1 ELSE r.Headers
        old   == hp1.maps[ref]
    IN  [heap |-> [hp1 EXCEPT !.maps[ref] =
                     [k \in DOMAIN old \cup DOMAIN headers |->
                        IF k \in DOMAIN headers THEN headers[k] ELSE old[k]]],
         rsp  |-> [r EXCEPT !.Headers = ref]]

WithHeaders(hp, r, headers) ==
    LET fresh == r.Headers = 0
        hp1   == IF fresh THEN [hp EXCEPT !.maps = Append(@, EmptyMap)] ELSE hp
        ref   == IF fresh THEN Len(hp.maps) + 1 ELSE r.Headers
        old   == hp1.maps[ref]
    IN  [heap |-> [hp1 EXCEPT !.maps[ref] =
                     [k \in DOMAIN old \cup DOMAIN headers |->
                        MapGet(old, k) \o MapGet(headers, k)]],
         rsp  |-> [r EXCEPT !.Headers = ref]]

\* func (r Response) WithCookies(cookies ...*http.Cookie) Response
WithCookies(hp, r, cookies) ==
    LET a == AppendSlice(hp, r.Cookies, cookies)
    IN  [heap |-> a.heap, rsp |-> [r EXCEPT !.Cookies = a.slice]]

\* func (r Response) WithLogging(logging ...interface{}) Response
WithLogging(hp, r, logging) ==
    LET a == AppendSlice(hp, r.Logging, logging)
    IN  [heap |-> a.heap, rsp |-> [r EXCEPT !.Logging = a.slice]]

\* What a reader of the Response value r sees.
View(hp, r) ==
    [Status  |-> r.Status,
     Data    |-> r.Data,
     Logging |-> SliceValues(hp, r.Logging),
     Headers |-> IF r.Headers = 0 THEN EmptyMap ELSE hp.maps[r.Headers],
     Cookies |-> SliceValues(hp, r.Cookies)]

\* Response values to derive from, each with the heap it lives in:
\* Ok(String("hi")); Ok(String("hi"), "log1"); Ok(String("hi"), s[:1]...) for
\* a caller's s of capacity 2; SeeOther("/loc"); and a Response literal with
\* two headers, a cookie in a slice of capacity 2 and one logged value.
BaseResponses ==
    LET ok == [Status |-> StatusOK, Data |-> String(<<"h", "i">>),
               Logging |-> NilSlice, Headers |-> 0, Cookies |-> NilSlice]
        one == [ptr |-> 1, len |-> 1, cap |-> 1]
        cut == [ptr |-> 1, len |-> 1, cap |-> 2]
    IN  { [heap |-> [maps |-> <<>>, arrays |-> <<>>], rsp |-> ok],
          [heap |-> [maps |-> <<>>, arrays |-> <<LogSeq(1)>>],
           rsp  |-> [ok EXCEPT !.Logging = one]],
          [heap |-> [maps |-> <<>>, arrays |-> <<LogSeq(2)>>],
           rsp  |-> [ok EXCEPT !.Logging = cut]],
          [heap |-> [maps |-> <<[k \in {"Location"} |-> <<"/loc">>]>>, arrays |-> <<>>],
           rsp  |-> [ok EXCEPT !.Status = StatusSeeOther,
                               !.Data = String(<<"3", "0", "3">>),
                               !.Headers = 1]],
          [heap |-> [maps   |-> <<[k \in {"X", "Y"} |->
                                     IF k = "X" THEN ValSeq(1) ELSE <<"w">>]>>,
                     arrays |-> <<LogSeq(1), CookieSeq(2)>>],
           rsp  |-> [ok EXCEPT !.Logging = one, !.Headers = 1,
                               !.Cookies = [ptr |-> 2, len |-> 1, cap |-> 2]]] }

\* The variables a program holds Response values in; r is the base, a and b
\* receive the derived values.
Registers == {"r", "a", "b"}

HeaderArgs == {[k \in {"X"} |-> <<"a">>], [k \in {"X"} |-> <<"b">>]}

CookieArgs ==
    {<<[Name |-> "k1", Value |-> "x"]>>,
     <<[Name |-> "k4", Value |-> "x"]>>,
     <<[Name |-> "k2", Value |-> "x"], [Name |-> "k3", Value |-> "x"]>>}

LoggingArgs ==
    {<<[value |-> "x"]>>, <<[value |-> "w"]>>, <<[value |-> "y"], [value |-> "z"]>>}

\* dst := src.op(arg), and its entry in the history.
Derive(op, src, dst, arg, res) ==
    /\ Len(hist) < MaxOps
    /\ heap' = res.heap
    /\ regs' = MapSet(regs, dst, res.rsp)
    /\ hist' = Append(hist, [op |-> op, src |-> src, dst |-> dst, arg |-> arg,
                             pre |-> View(heap, regs[src])])
    /\ UNCHANGED <<pipeVars, libVars>>

DoWithHeaders ==
    \E src \in DOMAIN regs, dst \in Registers \ {"r"}, headers \in HeaderArgs :
        Derive("WithHeaders", src, dst, headers, WithHeaders(heap, regs[src], headers))

DoWithCookies ==
    \E src \in DOMAIN regs, dst \in Registers \ {"r"}, cookies \in CookieArgs :
        Derive("WithCookies", src, dst, cookies, WithCookies(heap, regs[src], cookies))

DoWithLogging ==
    \E src \in DOMAIN regs, dst \in Registers \ {"r"}, logging \in LoggingArgs :
        Derive("WithLogging", src, dst, logging, WithLogging(heap, regs[src], logging))

InitResp ==
    /\ InitPipeline({}, Requests, Handlers)
    /\ \E b \in BaseResponses :
         /\ heap = b.heap
         /\ regs = [x \in {"r"} |-> b.rsp]
    /\ hist = <<>>
    /\ LibIdle

NextResp == DoWithHeaders \/ DoWithCookies \/ DoWithLogging

SpecResp == InitResp /\ [][NextResp]_vars

-----------------------------------------------------------------------------
\* Vocabulary of the pipeline's properties.

\* The requests in flight.
InFlight == DOMAIN pc

\* The Response the handler returned has a Serializer (Data is set).
HasSerializer(r) == h[r].rsp.Data # NilData

\* The handler's Serializer fails when invoked.
SerializerFails(r) == HasSerializer(r) /\ Invoke(h[r].rsp.Data).err # NoErr

\* The handler's Serializer succeeds when invoked.
SerializerSucceeds(r) == HasSerializer(r) /\ Invoke(h[r].rsp.Data).err = NoErr

\* The calls to the log function made for request r.
LogsOf(r) == SelectSeq(sink, LAMBDA rec : rec.URL = req[r].URL /\ rec.Method = req[r].Method)

\* How many events of kind e request r has had.
Count(r, e) == Cardinality({i \in DOMAIN events[r] : events[r][i].e = e})

\* Any step of the pipeline for request r.
PipelineStep(r) ==
    \/ ParseContentLength(r) \/ CallHandler(r) \/ SerializePanic(r)
    \/ Serialize(r) \/ CopyHeader(r) \/ SetCookie(r) \/ WriteHeader(r)
    \/ WriteTo(r) \/ Log(r)

\* The value of the request's Content-Length header is not an integer.
BadContentLength(r) ==
    HeaderGet(req[r].Header, "Content-Length") \in {<<>>, <<"1", "x">>}

-----------------------------------------------------------------------------
\* C1: when the Serializer of the handler's Response fails, the status
\* committed to the transport is 500 whatever status the handler set, the
\* body handed to the transport is the 25 bytes of "500 Internal Server
\* Error", and nothing but those bytes reaches the transport: all of them
\* when the write succeeds, a prefix of them when the transport fails.
C1_FallbackOnSerializerFailure ==
    \A r \in InFlight :
        SerializerFails(r) =>
            /\ w[r].status \in {0, StatusInternalServerError}
            /\ pc[r] \in {"write", "log", "done"} =>
                   w[r].status = StatusInternalServerError
            /\ pc[r] \in {"emit", "write", "log", "done"} =>
                   writerTo[r] = NewReader(FallbackBody)
            /\ IsPrefix(w[r].body, FallbackBody)
            /\ (pc[r] \in {"log", "done"} /\ err[r] = NoErr) =>
                   w[r].body = FallbackBody

\* A template that failed after partial output, under a handler status of
\* 404, answered with 500 and the fixed body.
C1_Witness ==
    \E r \in InFlight :
        /\ pc[r] = "done"
        /\ h[r].rsp.Data = TemplateFailing(<<"<", "p">>)
        /\ h[r].rsp.Status = StatusNotFound
        /\ w[r].status = StatusInternalServerError
        /\ w[r].body = FallbackBody

\* C2: on the serialization-failure path the Logging payload is one record:
\* the fixed context string, the serializer error's description and the
\* handler's own Logging nested unchanged; that is what the Log record holds.
C2_OriginalLoggingNested ==
    \A r \in InFlight :
        SerializerFails(r) =>
            LET nested == <<[Context         |-> "Error serializing response data",
                             Error           |-> Invoke(h[r].rsp.Data).err,
                             OriginalLogging |-> h[r].rsp.Logging]>>
            IN  /\ pc[r] \in {"emit", "write", "log", "done"} => rsp[r].Logging = nested
                /\ \A i \in DOMAIN LogsOf(r) : LogsOf(r)[i].Message = nested

\* A failing Serializer under a handler Logging of two values, logged.
C2_Witness ==
    \E r \in InFlight :
        /\ pc[r] = "done"
        /\ SerializerFails(r)
        /\ Len(h[r].rsp.Logging) = 2
        /\ Len(sink) = 1
        /\ sink[1].Message[1].OriginalLogging = h[r].rsp.Logging

HoldsNote(logging) ==
    \E i \in DOMAIN logging :
        logging[i] = ContentLengthNote("strconv.ParseInt: invalid syntax")

C4_ContentLengthNoteLogged ==
    \A r \in InFlight :
        (BadContentLength(r) /\ HasSerializer(r) /\ pc[r] = "done") =>
            /\ Len(LogsOf(r)) = 1
            /\ LET message == LogsOf(r)[1].Message
               IN  \/ HoldsNote(message)
                   \/ \E i \in DOMAIN message :
                          /\ "OriginalLogging" \in DOMAIN message[i]
                          /\ HoldsNote(message[i].OriginalLogging)

\* C5: the handler reads no more of the body than the declared
\* Content-Length: at most N bytes for a header that parses to N, none when
\* the header is missing, is no integer or is not positive, whatever the
\* stream holds; the handler is invoked all the same and, its Serializer
\* succeeding, the request completes with the handler's status.
DeclaredLength(v) ==
    CASE v = <<"2">> -> 2 [] v = <<"5">> -> 5 [] v = <<"+", "1">> -> 1 [] OTHER -> 0

C5_BodyBoundedByContentLength ==
    \A r \in InFlight :
        LET n == DeclaredLength(HeaderGet(req[r].Header, "Content-Length"))
        IN  /\ Len(bodyRead[r]) <= n
            /\ IsPrefix(bodyRead[r], req[r].Body)
            /\ pc[r] \notin {"start", "call"} =>
                   /\ Count(r, "handler") = 1
                   /\ bodyRead[r] = Prefix(req[r].Body, Min(n, Len(req[r].Body)))
            /\ SerializerSucceeds(r) =>
                   /\ pc[r] = "done" \/ ENABLED PipelineStep(r)
                   /\ pc[r] = "done" => w[r].status = h[r].rsp.Status

\* Content-Length: -1 over a stream of three bytes: nothing read, handler
\* invoked, its 404 committed.
C5_Witness ==
    \E r \in InFlight :
        /\ pc[r] = "done"
        /\ HeaderGet(req[r].Header, "Content-Length") = <<"-", "1">>
        /\ Len(req[r].Body) = MaxBody
        /\ bodyRead[r] = <<>>
        /\ Count(r, "handler") = 1
        /\ w[r].status = StatusNotFound

\* C6: within a request the events come in the order handler, serializer,
\* headers, cookies (in the Response's cookie order), status, body, log;
\* when the status is committed the transport holds every header value and
\* every cookie of the Response, and nothing is added to it afterwards.
Rank(e) ==
    CASE e = "handler" -> 1 [] e = "serializer" -> 2 [] e = "header" -> 3
      [] e = "cookie" -> 4 [] e = "status" -> 5 [] e = "body" -> 6 [] e = "log" -> 7

CookieEvents(r) == SelectSeq(events[r], LAMBDA ev : ev.e = "cookie")

\* The header set the Response asks for: its headers, and one Set-Cookie
\* value per cookie, in order.
EmittedHeader(r) ==
    LET cs == [i \in DOMAIN rsp[r].Cookies |-> CookieString(rsp[r].Cookies[i])]
    IN  IF cs = <<>> THEN rsp[r].Headers ELSE MapSet(rsp[r].Headers, "Set-Cookie", cs)

C6_EmissionOrder ==
    \A r \in InFlight :
        /\ \A i, j \in DOMAIN events[r] :
               i < j => Rank(events[r][i].e) <= Rank(events[r][j].e)
        /\ \A i \in DOMAIN CookieEvents(r) :
               /\ i <= Len(rsp[r].Cookies)
               /\ CookieEvents(r)[i].arg = rsp[r].Cookies[i].Name
        /\ w[r].status # 0 =>
               /\ w[r].header = EmittedHeader(r)
               /\ Len(CookieEvents(r)) = Len(rsp[r].Cookies)
               /\ {ev.arg : ev \in {x \in Range(events[r]) : x.e = "header"}}
                      = DOMAIN rsp[r].Headers
        /\ w[r].body # <<>> => Count(r, "status") = 1
        /\ Len(LogsOf(r)) > 0 => Count(r, "body") = 1

\* A Response with two headers and two cookies, answered and logged.
C6_Witness ==
    \E r \in InFlight :
        /\ pc[r] = "done"
        /\ DOMAIN rsp[r].Headers = {"X", "Y"}
        /\ Len(rsp[r].Cookies) = 2
        /\ w[r].header["Set-Cookie"] = <<"c1=x", "c2=x">>
        /\ Len(events[r]) = 9

\* C7: for a request whose handler returned a Response with a Serializer,
\* the handler is invoked once and the Serializer is invoked once, whether
\* the Serializer succeeds or fails.
C7_HandlerAndSerializerOnce ==
    \A r \in InFlight :
        /\ Count(r, "handler") = (IF pc[r] \in {"start", "call"} THEN 0 ELSE 1)
        /\ HasSerializer(r) =>
               Count(r, "serializer") =
                   (IF pc[r] \in {"start", "call", "serialize"} THEN 0 ELSE 1)

\* A request on the failure path, finished: one handler call, one
\* Serializer call.
C7_Witness ==
    \E r \in InFlight :
        /\ pc[r] = "done"
        /\ SerializerFails(r)
        /\ Count(r, "handler") = 1
        /\ Count(r, "serializer") = 1

-----------------------------------------------------------------------------
\* Vocabulary of the Response properties.

\* The derivation performed last.
Last == hist[Len(hist)]

\* What the receiver and the result of the last derivation look like now.
Receiver == View(heap, regs[Last.src])

Result == View(heap, regs[Last.dst])

\* C8: r.WithHeaders(h1).WithHeaders(h2) merges: under every key the result
\* holds the values r had, then those of h1, then those of h2, so for
\* h1 = {X:[a]} and h2 = {X:[b]} it holds r's X values, a, b in that order,
\* and every other key of r keeps its values.
C8_WithHeadersMerges ==
    (/\ Len(hist) >= 2
     /\ Last.op = "WithHeaders"
     /\ hist[Len(hist) - 1].op = "WithHeaders"
     /\ Last.src = hist[Len(hist) - 1].dst)
    => LET first == hist[Len(hist) - 1]
           was   == first.pre.Headers
       IN  /\ DOMAIN Result.Headers = DOMAIN was \cup {"X"}
           /\ Result.Headers["X"] = MapGet(was, "X") \o first.arg["X"] \o Last.arg["X"]
           /\ \A k \in DOMAIN was \ {"X"} : Result.Headers[k] = was[k]

\* A Response holding X: [v1] and Y: [w], after WithHeaders({X:[a]}) and
\* then WithHeaders({X:[b]}).
C8_Witness ==
    /\ Len(hist) = 2
    /\ hist[1].op = "WithHeaders" /\ hist[1].src = "r" /\ hist[1].dst = "a"
    /\ hist[2].op = "WithHeaders" /\ hist[2].src = "a" /\ hist[2].dst = "b"
    /\ hist[1].pre.Headers = [k \in {"X", "Y"} |-> IF k = "X" THEN <<"v1">> ELSE <<"w">>]
    /\ View(heap, regs["b"]).Headers =
           [k \in {"X", "Y"} |-> IF k = "X" THEN <<"v1", "a", "b">> ELSE <<"w">>]

\* C9: WithHeaders returns a copy: after r2 := r.WithHeaders(h) the headers
\* seen through the receiver r are those it had before the call.
C9_WithHeadersLeavesReceiver ==
    (/\ Len(hist) >= 1
     /\ Last.op = "WithHeaders"
     /\ Last.src # Last.dst)
    => Receiver.Headers = Last.pre.Headers

\* C10: WithCookies and WithLogging append: the result's Cookies (Logging) is
\* the receiver's sequence followed by the arguments in the order given, and
\* every other field of the result equals the receiver's.
C10_WithCookiesWithLoggingAppend ==
    /\ (Len(hist) >= 1 /\ Last.op = "WithCookies") =>
           Result = [Last.pre EXCEPT !.Cookies = @ \o Last.arg]
    /\ (Len(hist) >= 1 /\ Last.op = "WithLogging") =>
           Result = [Last.pre EXCEPT !.Logging = @ \o Last.arg]

\* Two values logged onto a Response that already had one, in a slice with
\* room for only one more.
C10_Witness ==
    /\ Len(hist) >= 1
    /\ Last.op = "WithLogging"
    /\ Len(Last.pre.Logging) = 1
    /\ Len(Last.arg) = 2
    /\ regs[Last.src].Logging.cap = 2
    /\ Result.Logging = Last.pre.Logging \o Last.arg
    /\ Result.Headers = Last.pre.Headers

-----------------------------------------------------------------------------
\* The status the pipeline commits for request r: the handler's, or 500 when
\* the handler's Serializer fails.
FinalStatus(r) ==
    IF SerializerFails(r) THEN StatusInternalServerError ELSE h[r].rsp.Status

\* The transport took every byte of the body handed to it.
BodyWritten(r) == w[r].body = writerTo[r].bytes

\* C19: a failing body write does not stop the pipeline and does not change
\* the status already committed; the Log record's WriteError is the write's
\* error, and it is nil exactly when the transport took the whole body.
C19_WriteErrorLogged ==
    \A r \in InFlight :
        (HasSerializer(r) /\ pc[r] \in {"log", "done"}) =>
            /\ w[r].status = FinalStatus(r)
            /\ (err[r] = NoErr) <=> BodyWritten(r)
            /\ pc[r] = "done" \/ ENABLED PipelineStep(r)
            /\ pc[r] = "done" =>
                   /\ Len(LogsOf(r)) = 1
                   /\ LogsOf(r)[1].WriteError = err[r]
                   /\ (LogsOf(r)[1].WriteError = NoErr) <=> BodyWritten(r)

\* A handler's 404 whose body write broke off half way: logged with the
\* write error, status still 404.
C19_Witness ==
    \E r \in InFlight :
        /\ pc[r] = "done"
        /\ h[r].rsp.Status = StatusNotFound
        /\ SerializerSucceeds(r)
        /\ w[r].body # <<>>
        /\ ~BodyWritten(r)
        /\ w[r].status = StatusNotFound
        /\ sink[1].WriteError = "write: broken pipe"

\* C20: in the Log record, Status is the status committed to the transport
\* (the handler's, or 500 after a Serializer failure), ResponseHeaders is the
\* transport's header set after emission (every header value of the Response
\* and one Set-Cookie value per cookie), and Method, URL and RequestHeaders
\* are the inbound request's.
C20_LogRecordFields ==
    \A r \in InFlight :
        \A i \in DOMAIN LogsOf(r) :
            LET rec == LogsOf(r)[i]
            IN  /\ rec.Status = w[r].status
                /\ rec.Status = FinalStatus(r)
                /\ rec.ResponseHeaders = w[r].header
                /\ \A k \in DOMAIN h[r].rsp.Headers :
                       rec.ResponseHeaders[k] = h[r].rsp.Headers[k]
                /\ MapGet(rec.ResponseHeaders, "Set-Cookie") =
                       [j \in DOMAIN h[r].rsp.Cookies |->
                          CookieString(h[r].rsp.Cookies[j])]
                /\ rec.Method = req[r].Method
                /\ rec.URL = req[r].URL
                /\ rec.RequestHeaders = req[r].Header

\* A 404 with two headers and two cookies whose Serializer failed: logged
\* with status 500 and the whole header set.
C20_Witness ==
    \E r \in InFlight :
        /\ pc[r] = "done"
        /\ SerializerFails(r)
        /\ h[r].rsp.Status = StatusNotFound
        /\ DOMAIN h[r].rsp.Headers = {"X", "Y"}
        /\ Len(h[r].rsp.Cookies) = 2
        /\ sink[1].Status = StatusInternalServerError
        /\ DOMAIN sink[1].ResponseHeaders = {"X", "Y", "Set-Cookie"}
        /\ "Content-Length" \in DOMAIN sink[1].RequestHeaders

-----------------------------------------------------------------------------
\* Serializers as objects (SpecSer).  A Serializer is a closure; the
\* io.WriterTo it returns is a strings.Reader, bytes.Reader or bytes.Buffer
\* with a read position, kept in readers and named by its index there.

MaxInvocations == 2
MaxWrites == 2

\* strings.NewReader(s) / bytes.NewReader(b) / bytes.NewBuffer(data)
ReaderAt(b) == [bytes |-> b, i |-> 0]

\* (*Reader).WriteTo / (*Buffer).WriteTo into a bytes.Buffer: the unread bytes
\* go out and the read position moves to the end.
ReaderWriteToSkipFirst(rs, ref) ==
    [readers |-> [rs EXCEPT ![ref].i = Len(rs[ref].bytes)],
     out     |-> SubSeq(rs[ref].bytes, rs[ref].i + 2, Len(rs[ref].bytes))]

ReaderWriteTo(rs, ref) ==
    [readers |-> [rs EXCEPT ![ref].i = Len(rs[ref].bytes)],
     out     |-> SubSeq(rs[ref].bytes, rs[ref].i + 1, Len(rs[ref].bytes))]

\* String(s) and Bytes(bs) of serializer.go lines 30-40: the reader is made
\* once, at construction, and every invocation returns that reader.
StringShared(rs, s) ==
    [ser     |-> [kind |-> "String", shared |-> Len(rs) + 1, arg |-> s],
     readers |-> Append(rs, ReaderAt(s))]

BytesShared(rs, bs) ==
    [ser     |-> [kind |-> "Bytes", shared |-> Len(rs) + 1, arg |-> bs],
     readers |-> Append(rs, ReaderAt(bs))]

\* String(s) and Bytes(bs) of serializer.go lines 99-113: the closure holds
\* the argument and makes a reader on every invocation.
StringFresh(rs, s) ==
    [ser |-> [kind |-> "String", shared |-> 0, arg |-> s], readers |-> rs]

BytesFresh(rs, bs) ==
    [ser |-> [kind |-> "Bytes", shared |-> 0, arg |-> bs], readers |-> rs]

\* JSON(v): the closure holds v; nothing is encoded.
JSONSerializer(rs, v) ==
    [ser |-> [kind |-> "JSON", shared |-> 0, arg |-> v], readers |-> rs]

\* Go values handed to json.Marshal.
IntV(n) == [t |-> "int", n |-> n]
BoolV(b) == [t |-> "bool", b |-> b]
NullV == [t |-> "nil"]
StrV(s) == [t |-> "string", s |-> s]
ArrV(vs) == [t |-> "slice", vs |-> vs]
StructV(fs) == [t |-> "struct", fs |-> fs]
ChanV == [t |-> "chan"]
\* A value whose MarshalJSON returns an error (marshalErrorer of the test).
MarshalErrorerV == [t |-> "marshalErrorer"]

DigitChar(d) ==
    CASE d = 0 -> "0" [] d = 1 -> "1" [] d = 2 -> "2" [] d = 3 -> "3"
      [] d = 4 -> "4" [] d = 5 -> "5" [] d = 6 -> "6" [] d = 7 -> "7"
      [] d = 8 -> "8" [] d = 9 -> "9"

\* strconv.AppendInt(_, n, 10)
RECURSIVE Itoa(_)
Itoa(n) ==
    IF n < 0 THEN <<"-">> \o Itoa(0 - n)
    ELSE IF n < 10 THEN <<DigitChar(n)>>
    ELSE Itoa(n \div 10) \o <<DigitChar(n % 10)>>

\* encoding/json string encoding: quotes around the text, a backslash before
\* a quote or a backslash, \n \r \t for a line feed, a carriage return and
\* a tab.
\* The bytes up to the next one that needs a backslash are copied as they
\* are.
RECURSIVE EscapeString(_)
EscapeString(s) ==
    LET stops == {k \in DOMAIN s : s[k] \in {"\"", "\\", "\n", "\r", "\t"}}
        k     == CHOOSE x \in stops : \A y \in stops : x <= y
    IN  IF stops = {} THEN s
        ELSE SubSeq(s, 1, k - 1)
                \o (CASE s[k] \in {"\"", "\\"} -> <<"\\", s[k]>>
                      [] s[k] = "\n" -> <<"\\", "n">>
                      [] s[k] = "\r" -> <<"\\", "r">>
                      [] s[k] = "\t" -> <<"\\", "t">>)
                \o EscapeString(SubSeq(s, k + 1, Len(s)))

\* json.Marshal(v): [bytes, err].  The first element that fails makes the
\* whole encoding fail, and then there are no bytes.
RECURSIVE Marshal(_)
Marshal(v) ==
    LET \* elements k..Len(es) of a slice or a struct, comma separated
        RECURSIVE Elems(_, _, _)
        Elems(es, k, isStruct) ==
            IF k > Len(es) THEN [bytes |-> <<>>, err |-> NoErr]
            ELSE LET e    == Marshal(IF isStruct THEN es[k].val ELSE es[k])
                     rest == Elems(es, k + 1, isStruct)
                     key  == IF isStruct
                             THEN <<"\"">> \o EscapeString(es[k].key) \o <<"\"", ":">>
                             ELSE <<>>
                     sep  == IF k > 1 THEN <<",">> ELSE <<>>
                 IN  IF e.err # NoErr THEN [bytes |-> <<>>, err |-> e.err]
                     ELSE IF rest.err # NoErr THEN [bytes |-> <<>>, err |-> rest.err]
                     ELSE [bytes |-> sep \o key \o e.bytes \o rest.bytes,
                           err   |-> NoErr]
        Wrap(open, r, close) ==
            IF r.err # NoErr THEN r
            ELSE [bytes |-> <<open>> \o r.bytes \o <<close>>, err |-> NoErr]
    IN  CASE v.t = "int"    -> [bytes |-> Itoa(v.n), err |-> NoErr]
          [] v.t = "bool"   -> [bytes |-> IF v.b THEN <<"t", "r", "u", "e">>
                                          ELSE <<"f", "a", "l", "s", "e">>,
                                err   |-> NoErr]
          [] v.t = "nil"    -> [bytes |-> <<"n", "u", "l", "l">>, err |-> NoErr]
          [] v.t = "string" -> [bytes |-> <<"\"">> \o EscapeString(v.s) \o <<"\"">>,
                                err   |-> NoErr]
          [] v.t = "slice"  -> Wrap("[", Elems(v.vs, 1, FALSE), "]")
          [] v.t = "struct" -> Wrap("{", Elems(v.fs, 1, TRUE), "}")
          [] v.t = "chan"   ->
                [bytes |-> <<>>, err |-> "json: unsupported type: chan int"]
          [] v.t = "marshalErrorer" ->
                [bytes |-> <<>>,
                 err   |-> "json: error calling MarshalJSON for type main.marshalErrorer: Sentinel error"]

\* s(): what an invocation returns, and the readers after it.  ref is the
\* io.WriterTo returned (0 is nil).
InvokeSerializerKeepBuffer(rs, s) ==
    IF s.kind \in {"String", "Bytes"}
    THEN IF s.shared # 0
         THEN [ref |-> s.shared, err |-> NoErr, readers |-> rs]
         ELSE [ref |-> Len(rs) + 1, err |-> NoErr,
               readers |-> Append(rs, ReaderAt(s.arg))]
    ELSE LET m == Marshal(s.arg)
         IN  [ref |-> Len(rs) + 1, err |-> m.err,
              readers |-> Append(rs, ReaderAt(m.bytes))]

InvokeSerializer(rs, s) ==
    IF s.kind \in {"String", "Bytes"}
    THEN IF s.shared # 0
         THEN [ref |-> s.shared, err |-> NoErr, readers |-> rs]
         ELSE [ref |-> Len(rs) + 1, err |-> NoErr,
               readers |-> Append(rs, ReaderAt(s.arg))]
    ELSE LET m == Marshal(s.arg)
         IN  IF m.err # NoErr
             THEN [ref |-> 0, err |-> m.err, readers |-> rs]
             ELSE [ref |-> Len(rs) + 1, err |-> NoErr,
                   readers |-> Append(rs, ReaderAt(m.bytes))]

\* The strings and byte slices wrapped: empty, and the two of the test.
SerInputs ==
    { <<>>,
      <<"H", "e", "l", "l", "o">>,
      <<"L", "o", "r", "e", "m", " ", "i", "p", "s", "u", "m">> }

\* The values wrapped by JSON, each with the output encoding/json gives for
\* it (wanted) or the error it reports (wantedErr).
Person ==
    StructV(<<[key |-> <<"n", "a", "m", "e">>, val |-> StrV(<<"B", "o", "b">>)],
              [key |-> <<"a", "g", "e">>, val |-> IntV(54)]>>)

JSONCases ==
    { [v |-> Person, wantedErr |-> NoErr,
       wanted |-> <<"{", "\"", "n", "a", "m", "e", "\"", ":", "\"", "B",
                   "o", "b", "\"", ",", "\"", "a", "g", "e", "\"", ":",
                   "5", "4", "}">>],
      [v |-> IntV(0 - 7), wantedErr |-> NoErr, wanted |-> <<"-", "7">>],
      [v |-> IntV(0), wantedErr |-> NoErr, wanted |-> <<"0">>],
      [v |-> BoolV(TRUE), wantedErr |-> NoErr, wanted |-> <<"t", "r", "u", "e">>],
      [v |-> NullV, wantedErr |-> NoErr, wanted |-> <<"n", "u", "l", "l">>],
      [v |-> StrV(<<"a", "\"", "b">>), wantedErr |-> NoErr,
       wanted |-> <<"\"", "a", "\\", "\"", "b", "\"">>],
      [v |-> ArrV(<<IntV(10), BoolV(FALSE)>>), wantedErr |-> NoErr,
       wanted |-> <<"[", "1", "0", ",", "f", "a", "l", "s", "e", "]">>],
      [v |-> ArrV(<<>>), wantedErr |-> NoErr, wanted |-> <<"[", "]">>],
      [v |-> ChanV, wantedErr |-> "json: unsupported type: chan int",
       wanted |-> <<>>],
      [v |-> MarshalErrorerV, wanted |-> <<>>,
       wantedErr |-> "json: error calling MarshalJSON for type main.marshalErrorer: Sentinel error"],
      [v |-> ArrV(<<IntV(1), ChanV>>), wanted |-> <<>>,
       wantedErr |-> "json: unsupported type: chan int"],
      [v |-> StructV(<<[key |-> <<"k">>, val |-> IntV(1)],
                       [key |-> <<"e">>, val |-> MarshalErrorerV]>>),
       wanted |-> <<>>,
       wantedErr |-> "json: error calling MarshalJSON for type main.marshalErrorer: Sentinel error"] }

serVars == <<ser, readers, prod, outs>>
helperVars == <<hcall, hrsp>>
reqVars == <<rq, calls>>

\* Every construction of a Serializer under test, on the readers rs.
Constructions(rs) ==
    {StringShared(rs, s) : s \in SerInputs}
        \cup {BytesShared(rs, s) : s \in SerInputs}
        \cup {StringFresh(rs, s) : s \in SerInputs}
        \cup {BytesFresh(rs, s) : s \in SerInputs}
        \cup {JSONSerializer(rs, c.v) : c \in JSONCases}

SerEvent(op, ref, e, b) == [op |-> op, ref |-> ref, err |-> e, bytes |-> b]

Invocations == {k \in DOMAIN outs : outs[k].op = "invoke"}
Writes == {k \in DOMAIN outs : outs[k].op = "write"}

\* s := String(...) / Bytes(...) / JSON(...)
Construct ==
    /\ ser.kind = "nil"
    /\ \E c \in Constructions(readers) :
         /\ ser' = c.ser
         /\ readers' = c.readers
    /\ UNCHANGED <<prod, outs>>
    /\ UNCHANGED <<pipeVars, respVars, helperVars, reqVars, auxVars>>

\* writerTo, err := s()
InvokeSer ==
    /\ ser.kind # "nil"
    /\ Cardinality(Invocations) < MaxInvocations
    /\ LET res == InvokeSerializer(readers, ser)
       IN  /\ prod' = [ref |-> res.ref, err |-> res.err]
           /\ readers' = res.readers
           /\ outs' = Append(outs, SerEvent("invoke", res.ref, res.err, <<>>))
    /\ UNCHANGED ser
    /\ UNCHANGED <<pipeVars, respVars, helperVars, reqVars, auxVars>>

\* writerTo.WriteTo(&buf) with a new bytes.Buffer
WriteOut ==
    /\ prod.ref # 0
    /\ Cardinality(Writes) < MaxWrites
    /\ LET res == ReaderWriteTo(readers, prod.ref)
       IN  /\ readers' = res.readers
           /\ outs' = Append(outs, SerEvent("write", prod.ref, NoErr, res.out))
    /\ UNCHANGED <<ser, prod>>
    /\ UNCHANGED <<pipeVars, respVars, helperVars, reqVars, auxVars>>

\* Nothing in flight anywhere.
Idle == InitPipeline({}, Requests, Handlers) /\ RespIdle /\ LibIdle

InitSer == Idle

NextSer ==
    \/ Construct
    \/ InvokeSer
    \/ WriteOut

SpecSer == InitSer /\ [][NextSer]_vars

\* The first time the byte producer of write k is written out.
FirstWrite(k) ==
    /\ k \in Writes
    /\ \A j \in Writes : j < k => outs[j].ref # outs[k].ref

\* C11: invoking String(s) or Bytes(b) never fails and returns a byte
\* producer, and writing that producer out yields exactly the bytes of s
\* (of b).  This holds for the Serializer that makes its reader at
\* construction and for the one that makes it on invocation.
C11_StringBytesRoundTrip ==
    ser.kind \in {"String", "Bytes"} =>
        /\ \A k \in Invocations : outs[k].err = NoErr /\ outs[k].ref # 0
        /\ \A k \in Writes : FirstWrite(k) => outs[k].bytes = ser.arg

\* Bytes("Lorem ipsum"), reader made on invocation, invoked twice and each
\* producer written out.
C11_Witness ==
    /\ ser.kind = "Bytes"
    /\ ser.shared = 0
    /\ Len(ser.arg) = 11
    /\ Cardinality(Invocations) = 2
    /\ Cardinality(Writes) = 2
    /\ \A k \in Writes : FirstWrite(k) /\ Len(outs[k].bytes) = 11

\* The table row of the value the JSON Serializer holds.
Case(v) == CHOOSE c \in JSONCases : c.v = v

\* C14: JSON(v) is constructed for every v, encodable or not, and
\* construction encodes nothing (no buffer exists, nothing was returned);
\* an invocation returns the encoder's error and a nil byte producer when v
\* cannot be encoded, and otherwise no error and a producer whose bytes are
\* the JSON encoding of v.
C14_JSONDeferredEncoding ==
    ser.kind = "JSON" =>
        /\ Invocations = {} => readers = <<>> /\ prod = [ref |-> 0, err |-> NoErr]
        /\ \A k \in Invocations :
               IF Case(ser.arg).wantedErr # NoErr
               THEN outs[k].err = Case(ser.arg).wantedErr /\ outs[k].ref = 0
               ELSE outs[k].err = NoErr /\ outs[k].ref # 0
        /\ Len(readers) =
               IF Case(ser.arg).wantedErr # NoErr THEN 0 ELSE Cardinality(Invocations)
        /\ \A k \in Writes :
               FirstWrite(k) => outs[k].bytes = Case(ser.arg).wanted

\* JSON of a slice holding a channel: constructed, then invoked, the
\* invocation returning the error and no producer.
C14_Witness ==
    /\ ser.kind = "JSON"
    /\ ser.arg = ArrV(<<IntV(1), ChanV>>)
    /\ Cardinality(Invocations) = 1
    /\ prod = [ref |-> 0, err |-> "json: unsupported type: chan int"]
    /\ readers = <<>>

-----------------------------------------------------------------------------
\* The status helpers (SpecHelpers).  Data is a Serializer object as above;
\* a nil data argument is NilData; Logging: logging is the variadic slice.

StatusCreated == 201
StatusAccepted == 202
StatusNoContent == 204
StatusConflict == 409
StatusTemporaryRedirect == 307
StatusBadRequest == 400
StatusUnauthorized == 401

\* The Serializer String(s) of helpers.go: no reader until it is invoked.
StringData(s) == StringFresh(<<>>, s).ser

HelperResponse(status, data, logging, headers) ==
    [Status |-> status, Data |-> data, Logging |-> logging, Headers |-> headers,
     Cookies |-> <<>>]

\* Ok as it was before the nil check was added: Data is whatever was passed.
OkKeepNil(data, logging) == HelperResponse(StatusOK, data, logging, EmptyMap)

Ok(data, logging) ==
    HelperResponse(StatusOK,
                   IF data = NilData
                   THEN StringData(<<"2", "0", "0", " ", "O", "K">>)
                   ELSE data,
                   logging, EmptyMap)

Created(data, logging) ==
    HelperResponse(StatusCreated,
                   IF data = NilData
                   THEN StringData(<<"2", "0", "1", " ", "C", "r", "e", "a",
                                   "t", "e", "d">>)
                   ELSE data,
                   logging, EmptyMap)

Accepted(data, logging) ==
    HelperResponse(StatusAccepted,
                   IF data = NilData
                   THEN StringData(<<"2", "0", "2", " ", "A", "c", "c", "e",
                                   "p", "t", "e", "d">>)
                   ELSE data,
                   logging, EmptyMap)

Conflict(data, logging) ==
    HelperResponse(StatusConflict,
                   IF data = NilData
                   THEN StringData(<<"4", "0", "9", " ", "C", "o", "n", "f",
                                   "l", "i", "c", "t">>)
                   ELSE data,
                   logging, EmptyMap)

BadRequest(data, logging) ==
    HelperResponse(StatusBadRequest,
                   IF data = NilData
                   THEN StringData(<<"4", "0", "0", " ", "B", "a", "d", " ",
                                   "R", "e", "q", "u", "e", "s", "t">>)
                   ELSE data,
                   logging, EmptyMap)

Unauthorized(data, logging) ==
    HelperResponse(StatusUnauthorized,
                   IF data = NilData
                   THEN StringData(<<"4", "0", "1", " ", "U", "n", "a", "u",
                                   "t", "h", "o", "r", "i", "z", "e", "d">>)
                   ELSE data,
                   logging, EmptyMap)

NotFound(data, logging) ==
    HelperResponse(StatusNotFound,
                   IF data = NilData
                   THEN StringData(<<"4", "0", "4", " ", "N", "o", "t", " ",
                                   "F", "o", "u", "n", "d">>)
                   ELSE data,
                   logging, EmptyMap)

NoContent(logging) ==
    HelperResponse(StatusNoContent, BytesFresh(<<>>, <<>>).ser, logging, EmptyMap)

InternalServerError(logging) ==
    HelperResponse(StatusInternalServerError,
                   StringData(<<"5", "0", "0", " ", "I", "n", "t", "e",
                                   "r", "n", "a", "l", " ", "S", "e", "r",
                                   "v", "e", "r", " ", "E", "r", "r", "o",
                                   "r">>),
                   logging, EmptyMap)

SeeOther(location, logging) ==
    HelperResponse(StatusSeeOther,
                   StringData(<<"3", "0", "3", " ", "S", "e", "e", " ",
                                   "O", "t", "h", "e", "r">>),
                   logging, MapSet(EmptyMap, "Location", <<location>>))

TemporaryRedirectAsSeeOther(location, logging) == SeeOther(location, logging)

TemporaryRedirect(location, logging) ==
    HelperResponse(StatusTemporaryRedirect,
                   StringData(<<"3", "0", "7", " ", "T", "e", "m", "p",
                                   "o", "r", "a", "r", "y", " ", "R", "e",
                                   "d", "i", "r", "e", "c", "t">>),
                   logging, MapSet(EmptyMap, "Location", <<location>>))

DataHelpers ==
    {"Ok", "Created", "Accepted", "Conflict", "BadRequest", "Unauthorized",
     "NotFound"}
LoggingHelpers == {"NoContent", "InternalServerError"}
RedirectHelpers == {"SeeOther", "TemporaryRedirect"}

Locations == {"/login", "https://example.org/a?b=c"}

\* The data arguments: nil, or any Serializer (with the reader it made when
\* it was constructed, if it made one).
DataArgs == {[ser |-> NilData, readers |-> <<>>]} \cup Constructions(<<>>)

HelperCall(helper, data, location, logging) ==
    [helper |-> helper, data |-> data, location |-> location, logging |-> logging]

\* The helper call c evaluated.
Helper(c) ==
    CASE c.helper = "Ok"           -> Ok(c.data, c.logging)
      [] c.helper = "Created"      -> Created(c.data, c.logging)
      [] c.helper = "Accepted"     -> Accepted(c.data, c.logging)
      [] c.helper = "Conflict"     -> Conflict(c.data, c.logging)
      [] c.helper = "BadRequest"   -> BadRequest(c.data, c.logging)
      [] c.helper = "Unauthorized" -> Unauthorized(c.data, c.logging)
      [] c.helper = "NotFound"     -> NotFound(c.data, c.logging)
      [] c.helper = "NoContent"    -> NoContent(c.logging)
      [] c.helper = "InternalServerError" -> InternalServerError(c.logging)
      [] c.helper = "SeeOther"     -> SeeOther(c.location, c.logging)
      [] c.helper = "TemporaryRedirect" -> TemporaryRedirect(c.location, c.logging)

\* actual := Helper(...); the test then reads actual.Data.
CallHelper ==
    /\ hcall.helper # "none"
    /\ hrsp = ZeroResponse
    /\ hrsp' = Helper(hcall)
    /\ ser' = hrsp'.Data
    /\ UNCHANGED <<hcall, readers, prod, outs>>
    /\ UNCHANGED <<pipeVars, respVars, reqVars, auxVars>>

InitHelpers ==
    /\ InitPipeline({}, Requests, Handlers)
    /\ RespIdle
    /\ AuxIdle
    /\ \E n \in 0..MaxLogLen :
         \/ \E h_ \in DataHelpers, d \in DataArgs :
              /\ hcall = HelperCall(h_, d.ser, "", LogSeq(n))
              /\ readers = d.readers
         \/ \E h_ \in LoggingHelpers :
              /\ hcall = HelperCall(h_, NilData, "", LogSeq(n))
              /\ readers = <<>>
         \/ \E h_ \in RedirectHelpers, l \in Locations :
              /\ hcall = HelperCall(h_, NilData, l, LogSeq(n))
              /\ readers = <<>>
    /\ hrsp = ZeroResponse
    /\ ser = NilData
    /\ prod = [ref |-> 0, err |-> NoErr]
    /\ outs = <<>>
    /\ rq = [Headers |-> EmptyMap, Body |-> [data |-> <<>>, failAfter |-> 0 - 1]]
    /\ calls = <<>>

NextHelpers ==
    \/ CallHelper
    \/ InvokeSer
    \/ WriteOut

SpecHelpers == InitHelpers /\ [][NextHelpers]_vars

\* What each helper stands for: its status code and the text of its default
\* body (NoContent has an empty one).
WantedOf(helper) ==
    CASE helper = "Ok" ->
            [status |-> 200, text |-> <<"2", "0", "0", " ", "O", "K">>]
      [] helper = "Created" ->
            [status |-> 201, text |-> <<"2", "0", "1", " ", "C", "r", "e", "a", "t", "e", "d">>]
      [] helper = "Accepted" ->
            [status |-> 202, text |-> <<"2", "0", "2", " ", "A", "c", "c", "e", "p", "t", "e", "d">>]
      [] helper = "Conflict" ->
            [status |-> 409, text |-> <<"4", "0", "9", " ", "C", "o", "n", "f", "l", "i", "c", "t">>]
      [] helper = "BadRequest" ->
            [status |-> 400, text |-> <<"4", "0", "0", " ", "B", "a", "d", " ", "R", "e", "q", "u",
              "e", "s", "t">>]
      [] helper = "Unauthorized" ->
            [status |-> 401, text |-> <<"4", "0", "1", " ", "U", "n", "a", "u", "t", "h", "o", "r",
              "i", "z", "e", "d">>]
      [] helper = "NotFound" ->
            [status |-> 404, text |-> <<"4", "0", "4", " ", "N", "o", "t", " ", "F", "o", "u", "n",
              "d">>]
      [] helper = "NoContent" ->
            [status |-> 204, text |-> <<>>]
      [] helper = "InternalServerError" ->
            [status |-> 500, text |-> <<"5", "0", "0", " ", "I", "n", "t", "e", "r", "n", "a", "l",
              " ", "S", "e", "r", "v", "e", "r", " ", "E", "r", "r", "o",
              "r">>]
      [] helper = "SeeOther" ->
            [status |-> 303, text |-> <<"3", "0", "3", " ", "S", "e", "e", " ", "O", "t", "h", "e",
              "r">>]
      [] helper = "TemporaryRedirect" ->
            [status |-> 307, text |-> <<"3", "0", "7", " ", "T", "e", "m", "p", "o", "r", "a", "r",
              "y", " ", "R", "e", "d", "i", "r", "e", "c", "t">>]

Called == hrsp # ZeroResponse

\* The helper was given a Serializer of the caller's.
CallerData == hcall.helper \in DataHelpers /\ hcall.data # NilData

C13_RedirectHelpers ==
    (Called /\ hcall.helper \in RedirectHelpers) =>
        /\ hrsp.Status = (IF hcall.helper = "SeeOther" THEN 303 ELSE 307)
        /\ hrsp.Status = WantedOf(hcall.helper).status
        /\ DOMAIN hrsp.Headers = {"Location"}
        /\ hrsp.Headers["Location"] = <<hcall.location>>
        /\ hrsp.Logging = hcall.logging
        /\ hrsp.Data # NilData
        /\ \A k \in Invocations : outs[k].err = NoErr /\ outs[k].ref # 0
        /\ \A k \in Writes :
               FirstWrite(k) => outs[k].bytes = WantedOf(hcall.helper).text

\* TemporaryRedirect("/login"), its Data invoked and written out.
C13_Witness ==
    /\ Called
    /\ hcall.helper = "TemporaryRedirect"
    /\ hcall.location = "/login"
    /\ hrsp.Status = StatusTemporaryRedirect
    /\ hrsp.Headers["Location"] = <<"/login">>
    /\ \E k \in Writes : Len(outs[k].bytes) = 22

-----------------------------------------------------------------------------
\* Request accessors (SpecReq).  Header lines and bodies are sequences of
\* bytes, each byte written as a one-character string ("DEL" is the byte
\* 0x7f, which has no character).

MaxLine == 3
MaxCalls == 1

\* The byte value of each character the header lines are made of.
Ord(c) ==
    CASE c = "a" -> 97
      [] c = "b" -> 98
      [] c = "c" -> 99
      [] c = "z" -> 122
      [] c = "t" -> 116
      [] c = "w" -> 119
      [] c = "o" -> 111
      [] c = "1" -> 49
      [] c = "2" -> 50
      [] c = "3" -> 51
      [] c = "~" -> 126
      [] c = "=" -> 61
      [] c = ";" -> 59
      [] c = " " -> 32
      [] c = "\"" -> 34
      [] c = "\\" -> 92
      [] c = "\t" -> 9
      [] c = "@" -> 64
      [] c = "DEL" -> 127

\* strings.Index(s, c) for a one-byte c: the 0-based index of the first c in
\* s, -1 when there is none.
Index(s, c) ==
    IF \E k \in DOMAIN s : s[k] = c
    THEN (CHOOSE k \in DOMAIN s : s[k] = c /\ \A j \in 1..(k - 1) : s[j] # c) - 1
    ELSE 0 - 1

\* textproto.TrimString: leading and trailing ASCII white space removed.
isASCIISpace(c) == c \in {" ", "\t"}

RECURSIVE TrimLeft(_)
TrimLeft(s) ==
    IF s # <<>> /\ isASCIISpace(Head(s)) THEN TrimLeft(Tail(s)) ELSE s

RECURSIVE TrimRight(_)
TrimRight(s) ==
    IF s # <<>> /\ isASCIISpace(s[Len(s)])
    THEN TrimRight(SubSeq(s, 1, Len(s) - 1))
    ELSE s

TrimString(s) == TrimRight(TrimLeft(s))

\* httpguts.IsTokenRune: letters, digits and !#$%&'*+-.^_`|~ (by byte value).
IsTokenRune(c) ==
    Ord(c) \in (48..57) \cup (65..90) \cup (97..122)
                \cup {33, 35, 36, 37, 38, 39, 42, 43, 45, 46, 94, 95, 96, 124, 126}

isCookieNameValidAny(raw) == TRUE

isCookieNameValid(raw) ==
    IF raw = <<>> THEN FALSE ELSE \A k \in DOMAIN raw : IsTokenRune(raw[k])

\* 0x20 <= b && b < 0x7f && b != '"' && b != ';' && b != '\\'
validCookieValueByte(c) ==
    /\ 32 <= Ord(c)
    /\ Ord(c) < 127
    /\ c \notin {"\"", ";", "\\"}

\* (value, ok): the quotes around raw are stripped when there are two of
\* them, and every byte left must be a valid value byte.
parseCookieValue(raw, allowDoubleQuote) ==
    LET stripped ==
            IF allowDoubleQuote /\ Len(raw) > 1 /\ raw[1] = "\"" /\ raw[Len(raw)] = "\""
            THEN SubSeq(raw, 2, Len(raw) - 1)
            ELSE raw
    IN  IF \E k \in DOMAIN stripped : ~validCookieValueByte(stripped[k])
        THEN [val |-> <<>>, ok |-> FALSE]
        ELSE [val |-> stripped, ok |-> TRUE]

\* The loop `for len(line) > 0` over one trimmed line: the cookies it appends.
RECURSIVE readLine(_, _)
readLine(line, filter) ==
    IF line = <<>> THEN <<>>
    ELSE LET splitIndex == Index(line, ";")
             part0 == IF splitIndex > 0 THEN SubSeq(line, 1, splitIndex) ELSE line
             rest  == IF splitIndex > 0
                      THEN SubSeq(line, splitIndex + 2, Len(line))
                      ELSE <<>>
             part  == TrimString(part0)
             j     == Index(part, "=")
             name  == IF j >= 0 THEN SubSeq(part, 1, j) ELSE part
             val   == IF j >= 0 THEN SubSeq(part, j + 2, Len(part)) ELSE <<>>
             pv    == parseCookieValue(val, TRUE)
             keep  == /\ part # <<>>
                      /\ isCookieNameValid(name)
                      /\ ~(filter # <<>> /\ filter # name)
                      /\ pv.ok
         IN  (IF keep THEN <<[Name |-> name, Value |-> pv.val]>> ELSE <<>>)
                \o readLine(rest, filter)

\* readCookies(h, filter): the cookies of every line of h["Cookie"], in
\* order; filter "" keeps every name.
RECURSIVE readLines(_, _)
readLines(lines, filter) ==
    IF lines = <<>> THEN <<>>
    ELSE readLine(TrimString(Head(lines)), filter) \o readLines(Tail(lines), filter)

readCookies(hdr, filter) == readLines(MapGet(hdr, "Cookie"), filter)

\* The error values of the accessors.
NilErr == [kind |-> "nil"]
ErrNoCookie == [kind |-> "http: named cookie not present"]

\* Request.Cookie(name): [cookie, err].
RequestCookieLast(r, name) ==
    LET cs == SelectSeq(readCookies(r.Headers, name), LAMBDA c : c.Name = name)
    IN  IF cs = <<>> THEN [cookie |-> [Name |-> <<>>, Value |-> <<>>], err |-> ErrNoCookie]
        ELSE [cookie |-> cs[Len(cs)], err |-> NilErr]

RequestCookie(r, name) ==
    LET cs == SelectSeq(readCookies(r.Headers, name), LAMBDA c : c.Name = name)
    IN  IF cs = <<>> THEN [cookie |-> [Name |-> <<>>, Value |-> <<>>], err |-> ErrNoCookie]
        ELSE [cookie |-> cs[1], err |-> NilErr]

\* Request.Cookies()
RequestCookies(r) == readCookies(r.Headers, <<>>)

\* The error values of Request.JSON.
ReadErr == [kind |-> "read: connection reset"]
SyntaxError == [kind |-> "json.SyntaxError"]
UnmarshalTypeError == [kind |-> "json.UnmarshalTypeError"]
InvalidJSONErr(e) == [kind |-> "InvalidJSONErr", Err |-> e]

\* A request body: the bytes not yet read, and failAfter, the number of bytes
\* after which Read reports ReadErr (-1: it never does, the stream ends in
\* io.EOF).
NewBody(data, failAfter) == [data |-> data, failAfter |-> failAfter]

\* r.Bytes() = ioutil.ReadAll(r.Body): [data, err] and the body afterwards.
RequestBytes(r) ==
    IF r.Body.failAfter < 0
    THEN [data |-> r.Body.data, err |-> NilErr, body |-> NewBody(<<>>, 0 - 1)]
    ELSE [data |-> Prefix(r.Body.data, r.Body.failAfter), err |-> ReadErr,
          body |-> NewBody(SubSeq(r.Body.data, r.Body.failAfter + 1,
                                  Len(r.Body.data)), 0)]

\* encoding/json's scanner and decoder on the JSON the bodies are written in:
\* null, true, false, integers, strings with the escapes \" \\ \/, arrays and
\* objects, white space between tokens.  Each operator returns [ok, v, next],
\* next being the index after what it read.
JSONSpace == {" ", "\t", "\n", "\r"}

RECURSIVE SkipSpace(_, _)
SkipSpace(s, i) ==
    IF i <= Len(s) /\ s[i] \in JSONSpace THEN SkipSpace(s, i + 1) ELSE i

ScanFail == [ok |-> FALSE, v |-> NullV, next |-> 0]

Scanned(v, next) == [ok |-> TRUE, v |-> v, next |-> next]

HasLiteral(s, i, lit) ==
    i + Len(lit) - 1 <= Len(s) /\ SubSeq(s, i, i + Len(lit) - 1) = lit

RECURSIVE ScanString(_, _, _)
ScanString(s, i, text) ==
    LET stops == {x \in i..Len(s) : s[x] \in {"\"", "\\", "\t", "\n", "\r"}}
        k     == CHOOSE x \in stops : \A y \in stops : x <= y
        t     == text \o SubSeq(s, i, k - 1)
    IN  IF stops = {} \/ s[k] \in {"\t", "\n", "\r"} THEN ScanFail
        ELSE IF s[k] = "\"" THEN Scanned(StrV(t), k + 1)
        ELSE IF k + 1 <= Len(s) /\ s[k + 1] \in {"\"", "\\", "/"}
             THEN ScanString(s, k + 2, Append(t, s[k + 1]))
        ELSE IF k + 1 <= Len(s) /\ s[k + 1] \in {"n", "r", "t"}
             THEN ScanString(s, k + 2,
                             Append(t, CASE s[k + 1] = "n" -> "\n"
                                         [] s[k + 1] = "r" -> "\r"
                                         [] s[k + 1] = "t" -> "\t"))
        ELSE ScanFail

RECURSIVE ScanDigits(_, _)
ScanDigits(s, i) ==
    IF i <= Len(s) /\ s[i] \in Digits THEN ScanDigits(s, i + 1) ELSE i

\* -? (0 | [1-9][0-9]*)
ScanNumber(s, i) ==
    LET neg == s[i] = "-"
        d   == IF neg THEN i + 1 ELSE i
        end == IF d <= Len(s) /\ s[d] = "0" THEN d + 1 ELSE ScanDigits(s, d)
    IN  IF end = d THEN ScanFail
        ELSE Scanned(IntV(IF neg THEN 0 - ParseUint(SubSeq(s, d, end - 1), 0)
                          ELSE ParseUint(SubSeq(s, d, end - 1), 0)),
                     end)

RECURSIVE ScanValue(_, _)
RECURSIVE ScanElems(_, _, _)
RECURSIVE ScanMembers(_, _, _)

\* The value that begins at s[i].
ScanValue(s, i) ==
    IF i > Len(s) THEN ScanFail
    ELSE CASE HasLiteral(s, i, <<"n", "u", "l", "l">>) -> Scanned(NullV, i + 4)
           [] HasLiteral(s, i, <<"t", "r", "u", "e">>) -> Scanned(BoolV(TRUE), i + 4)
           [] HasLiteral(s, i, <<"f", "a", "l", "s", "e">>) ->
                 Scanned(BoolV(FALSE), i + 5)
           [] s[i] = "\"" -> ScanString(s, i + 1, <<>>)
           [] s[i] = "-" \/ s[i] \in Digits -> ScanNumber(s, i)
           [] s[i] = "[" ->
                 LET k == SkipSpace(s, i + 1)
                 IN  IF k <= Len(s) /\ s[k] = "]" THEN Scanned(ArrV(<<>>), k + 1)
                     ELSE ScanElems(s, k, <<>>)
           [] s[i] = "{" ->
                 LET k == SkipSpace(s, i + 1)
                 IN  IF k <= Len(s) /\ s[k] = "}" THEN Scanned(StructV(<<>>), k + 1)
                     ELSE ScanMembers(s, k, <<>>)
           [] OTHER -> ScanFail

\* The elements of an array from s[i] on, up to its closing bracket.
ScanElems(s, i, vs) ==
    LET e == ScanValue(s, i)
        k == SkipSpace(s, e.next)
    IN  IF ~e.ok \/ k > Len(s) THEN ScanFail
        ELSE IF s[k] = "," THEN ScanElems(s, SkipSpace(s, k + 1), Append(vs, e.v))
        ELSE IF s[k] = "]" THEN Scanned(ArrV(Append(vs, e.v)), k + 1)
        ELSE ScanFail

\* The members of an object from s[i] on, up to its closing brace.
ScanMembers(s, i, fs) ==
    IF i > Len(s) \/ s[i] # "\"" THEN ScanFail
    ELSE LET key == ScanString(s, i + 1, <<>>)
             c   == SkipSpace(s, key.next)
         IN  IF ~key.ok \/ c > Len(s) \/ s[c] # ":" THEN ScanFail
             ELSE LET e == ScanValue(s, SkipSpace(s, c + 1))
                      k == SkipSpace(s, e.next)
                      f == [key |-> key.v.s, val |-> e.v]
                  IN  IF ~e.ok \/ k > Len(s) THEN ScanFail
                      ELSE IF s[k] = ","
                           THEN ScanMembers(s, SkipSpace(s, k + 1), Append(fs, f))
                      ELSE IF s[k] = "}"
                           THEN Scanned(StructV(Append(fs, f)), k + 1)
                      ELSE ScanFail

\* The target before decoding, and after a decoding that stored nothing.
UnsetV == [t |-> "unset"]

\* The targets: a *interface{} takes any value, a *int takes an integer (and
\* ignores null).
Targets == {"interface{}", "int"}

\* json.Unmarshal(data, v): [err, v].  The whole input is checked for syntax
\* before anything is stored.
Unmarshal(data, target) ==
    LET e   == ScanValue(data, SkipSpace(data, 1))
        end == SkipSpace(data, e.next)
    IN  IF ~e.ok \/ end <= Len(data) THEN [err |-> SyntaxError, v |-> UnsetV]
        ELSE IF target = "int" /\ e.v.t = "nil" THEN [err |-> NilErr, v |-> UnsetV]
        ELSE IF target = "int" /\ e.v.t # "int"
             THEN [err |-> UnmarshalTypeError, v |-> UnsetV]
        ELSE [err |-> NilErr, v |-> e.v]

\* Request.JSON(v): [err, v, decoded, body]; decoded says whether
\* json.Unmarshal was called.
RequestJSONUnwrapped(r, target) ==
    LET b == RequestBytes(r)
        u == Unmarshal(b.data, target)
    IN  IF b.err # NilErr
        THEN [err |-> b.err, v |-> UnsetV, decoded |-> FALSE, body |-> b.body]
        ELSE [err |-> u.err, v |-> u.v, decoded |-> TRUE, body |-> b.body]

RequestJSON(r, target) ==
    LET b == RequestBytes(r)
        u == Unmarshal(b.data, target)
    IN  IF b.err # NilErr
        THEN [err |-> b.err, v |-> UnsetV, decoded |-> FALSE, body |-> b.body]
        ELSE IF u.err # NilErr
             THEN [err |-> InvalidJSONErr(u.err), v |-> u.v, decoded |-> TRUE,
                   body |-> b.body]
        ELSE [err |-> NilErr, v |-> u.v, decoded |-> TRUE, body |-> b.body]

\* The bytes of the short header lines.
LineAlphabet == {"a", "b", "=", ";", " ", "\""}

\* Every line of at most MaxLine bytes over LineAlphabet.
ShortLines == UNION {[1..n -> LineAlphabet] : n \in 0..MaxLine}

\* Longer Cookie headers, one or two lines each: the example of the
\* documentation, repeated names, empty pairs, white space, quoted values,
\* names and values with bytes that are not allowed.
LongHeaders ==
    { <<<<"a", "=", "1", ";", " ", "b", "=", "\"", "t", "w", "o", "\"",
            ";", " ", "c", "=", "3">>>>,
      <<<<"a", "=", "1">>, <<"b", "=", "2", ";", " ", "a", "=", "3">>>>,
      <<<<"b", "=", "1", ";", " ", "a", "=", "2", ";", " ", "a", "=", "3">>>>,
      <<<<";", "a", "=", "1">>>>,
      <<<<"a", "=", "1", ";", ";", "b", "=", "2">>>>,
      <<<<"a", "=", "1", ";", " ", ";", "b", "=", "2">>>>,
      <<<<" ", " ", "a", "=", "1", " ", ";", " ", " ", "b", "=", "2",
            " ", " ">>>>,
      <<<<"a", "=", "\"", "b", "\"">>>>,
      <<<<"a", "=", "\"", "\"">>>>,
      <<<<"a", "=", "\"", "1">>>>,
      <<<<"a", "=", "1", "\"", "2", ";", "b", "=", "2">>>>,
      <<<<"a", "=", "1", "\\", "2", ";", "b", "=", "2">>>>,
      <<<<"a", "@", "=", "1", ";", "b", "=", "2">>>>,
      <<<<"a", "=", "@", ";", "b", "=", "~">>>>,
      <<<<"=", "1", ";", "b", "=", "2">>>>,
      <<<<"a", " ", "a", "=", "1", ";", "b", "=", "2">>>>,
      <<<<"a", "=", "1", " ", "2", ";", "b", "=", "2">>>>,
      <<<<"a", "=", "b", "=", "c">>>>,
      <<<<>>, <<"a", "=", "1">>>>,
      <<<<"z">>, <<"a", ";", "b">>>>,
      <<<<"a", "=", "1", "\t", "2", ";", "b", "=", "2">>>>,
      <<<<"a", "=", "DEL", ";", "b", "=", "2">>>>,
      <<<<"\t", "a", "=", "1", "\t">>>> }

\* The header tables of the requests: no Cookie key, or a Cookie key with one
\* short line, or one of the longer headers.
CookieHeaders ==
    {EmptyMap}
        \cup {MapSet(EmptyMap, "Cookie", <<l>>) : l \in ShortLines}
        \cup {MapSet(EmptyMap, "Cookie", ls) : ls \in LongHeaders}

\* The names asked for.
CookieNames == {<<"a">>, <<"b">>, <<"z">>, <<>>}

\* The request bodies, each with what encoding/json makes of it: valid says
\* whether it is a JSON text, validInt whether it also fits an int.
BodyCases ==
    { [data |-> <<"{", "\"", "n", "a", "m", "e", "\"", ":", "\"", "B", "o",
                 "b", "\"", ",", "\"", "a", "g", "e", "\"", ":", "5", "4",
                 "}">>,
       valid |-> TRUE, validInt |-> FALSE],
      [data |-> <<"5", "4">>,
       valid |-> TRUE, validInt |-> TRUE],
      [data |-> <<" ", "-", "7", " ">>,
       valid |-> TRUE, validInt |-> TRUE],
      [data |-> <<"n", "u", "l", "l">>,
       valid |-> TRUE, validInt |-> TRUE],
      [data |-> <<"[", "1", "0", ",", "f", "a", "l", "s", "e", "]">>,
       valid |-> TRUE, validInt |-> FALSE],
      [data |-> <<"[", " ", "]">>,
       valid |-> TRUE, validInt |-> FALSE],
      [data |-> <<"\"", "a", "\\", "\"", "b", "\"">>,
       valid |-> TRUE, validInt |-> FALSE],
      [data |-> <<"{", "\"", "k", "\"", ":", "[", "1", ",", "{", "\"", "e",
                 "\"", ":", "n", "u", "l", "l", "}", "]", "}">>,
       valid |-> TRUE, validInt |-> FALSE],
      [data |-> <<>>,
       valid |-> FALSE, validInt |-> FALSE],
      [data |-> <<"{">>,
       valid |-> FALSE, validInt |-> FALSE],
      [data |-> <<"{", "\"", "a", "g", "e", "\"", ":", "}">>,
       valid |-> FALSE, validInt |-> FALSE],
      [data |-> <<"t", "r", "u">>,
       valid |-> FALSE, validInt |-> FALSE],
      [data |-> <<"1", " ", "2">>,
       valid |-> FALSE, validInt |-> FALSE],
      [data |-> <<"0", "1">>,
       valid |-> FALSE, validInt |-> FALSE],
      [data |-> <<"[", "1", ",", "]">>,
       valid |-> FALSE, validInt |-> FALSE],
      [data |-> <<"\"", "a", "b">>,
       valid |-> FALSE, validInt |-> FALSE],
      [data |-> <<"{", "\"", "a", "\"", ":", "1", ",", "}">>,
       valid |-> FALSE, validInt |-> FALSE],
      [data |-> <<"{", "a", ":", "1", "}">>,
       valid |-> FALSE, validInt |-> FALSE],
      [data |-> <<"-">>,
       valid |-> FALSE, validInt |-> FALSE] }

\* Where the read of a body of n bytes may fail: nowhere, at once, half way,
\* or after the last byte.
FailPoints(n) == {0 - 1, 0, n \div 2, n}

RequestsUnderTest ==
    {[Headers |-> hdr, Body |-> NewBody(<<>>, 0 - 1)] : hdr \in CookieHeaders}
        \cup UNION {{[Headers |-> EmptyMap, Body |-> NewBody(c.data, f)] :
                        f \in FailPoints(Len(c.data))} : c \in BodyCases}

\* One accessor call and what it returned; body is r.Body as the call found it.
Call(op, name, cookies, e, target, v, decoded) ==
    [op |-> op, name |-> name, cookies |-> cookies, err |-> e, target |-> target,
     v |-> v, decoded |-> decoded, body |-> rq.Body]

\* c, err := r.Cookie(name)
CallCookie ==
    /\ Len(calls) < MaxCalls
    /\ \E name \in CookieNames :
         LET res == RequestCookie(rq, name)
         IN  calls' = Append(calls,
                 Call("Cookie", name,
                      IF res.err = NilErr THEN <<res.cookie>> ELSE <<>>,
                      res.err, "", UnsetV, FALSE))
    /\ UNCHANGED rq
    /\ UNCHANGED <<pipeVars, respVars, serVars, helperVars, auxVars>>

\* cs := r.Cookies()
CallCookies ==
    /\ Len(calls) < MaxCalls
    /\ calls' = Append(calls,
           Call("Cookies", <<>>, RequestCookies(rq), NilErr, "", UnsetV, FALSE))
    /\ UNCHANGED rq
    /\ UNCHANGED <<pipeVars, respVars, serVars, helperVars, auxVars>>

\* err := r.JSON(&v)
CallJSON ==
    /\ Len(calls) < MaxCalls
    /\ \E target \in Targets :
         LET res == RequestJSON(rq, target)
         IN  /\ calls' = Append(calls,
                     Call("JSON", <<>>, <<>>, res.err, target, res.v, res.decoded))
             /\ rq' = [rq EXCEPT !.Body = res.body]
    /\ UNCHANGED <<pipeVars, respVars, serVars, helperVars, auxVars>>

InitReq ==
    /\ InitPipeline({}, Requests, Handlers)
    /\ RespIdle
    /\ AuxIdle
    /\ ser = NilData
    /\ readers = <<>>
    /\ prod = [ref |-> 0, err |-> NoErr]
    /\ outs = <<>>
    /\ hcall = [helper |-> "none"]
    /\ hrsp = ZeroResponse
    /\ rq \in RequestsUnderTest
    /\ calls = <<>>

NextReq ==
    \/ CallCookie
    \/ CallCookies
    \/ CallJSON

SpecReq == InitReq /\ [][NextReq]_vars

\* The calls of one accessor.
CallsOf(op) == {k \in DOMAIN calls : calls[k].op = op}

\* What encoding/json makes of the body data for the target.
IsValidJSON(data, target) ==
    LET b == CHOOSE b \in BodyCases : b.data = data
    IN  IF target = "int" THEN b.validInt ELSE b.valid

\* C15: Request.JSON returns the read error itself, not wrapped, and does not
\* decode, when reading the body fails; it returns an InvalidJSONErr wrapping
\* the decoder's error when the body was read and is not valid JSON for the
\* target; it returns nil only when the read and the decoding both succeed.
C15_JSONErrorsDistinguished ==
    \A k \in CallsOf("JSON") :
        LET c == calls[k]
        IN  IF c.body.failAfter >= 0
            THEN c.err = ReadErr /\ ~c.decoded /\ c.v = UnsetV
            ELSE IF ~IsValidJSON(c.body.data, c.target)
            THEN /\ c.err.kind = "InvalidJSONErr"
                 /\ c.err.Err \in {SyntaxError, UnmarshalTypeError}
                 /\ c.decoded
            ELSE c.err = NilErr /\ c.decoded

\* The body 54 read in full before the read fails: the read error comes
\* back and nothing is decoded.
C15_Witness ==
    \E k \in CallsOf("JSON") :
        /\ calls[k].body = NewBody(<<"5", "4">>, 2)
        /\ calls[k].err = ReadErr
        /\ ~calls[k].decoded

\* The Cookie header lines of the request.
CookieLines == MapGet(rq.Headers, "Cookie")

ExampleHeader ==
    <<<<"a", "=", "1", ";", " ", "b", "=", "\"", "t", "w", "o", "\"", ";",
        " ", "c", "=", "3">>>>

RECURSIVE SplitPairs(_)
SplitPairs(line) ==
    LET i == Index(line, ";")
    IN  IF i < 0 THEN <<line>>
        ELSE <<SubSeq(line, 1, i)>> \o SplitPairs(SubSeq(line, i + 2, Len(line)))

\* The bytes of the header lines that are HTTP token characters, and those
\* allowed in a cookie value (0x20..0x7E without double quote, semicolon and
\* backslash).
TokenBytes == {"a", "b", "c", "z", "t", "w", "o", "1", "2", "3", "~"}
ValueBytes == TokenBytes \cup {"=", " ", "@"}

\* The cookie a pair stands for, and whether the pair is a valid one.
PairCookie(pair) ==
    LET p     == TrimString(pair)
        j     == Index(p, "=")
        name  == IF j >= 0 THEN SubSeq(p, 1, j) ELSE p
        raw   == IF j >= 0 THEN SubSeq(p, j + 2, Len(p)) ELSE <<>>
        value == IF Len(raw) > 1 /\ raw[1] = "\"" /\ raw[Len(raw)] = "\""
                 THEN SubSeq(raw, 2, Len(raw) - 1)
                 ELSE raw
    IN  [valid  |-> /\ name # <<>>
                    /\ Range(name) \subseteq TokenBytes
                    /\ Range(value) \subseteq ValueBytes,
         cookie |-> [Name |-> name, Value |-> value]]

\* The valid pairs of the lines, in header order.
RECURSIVE ValidPairs(_)
ValidPairs(lines) ==
    IF lines = <<>> THEN <<>>
    ELSE LET ps == SplitPairs(TrimString(Head(lines)))
             cs == [k \in DOMAIN ps |-> PairCookie(ps[k])]
         IN  [k \in 1..Cardinality({i \in DOMAIN cs : cs[i].valid}) |->
                 LET i == CHOOSE i \in DOMAIN cs :
                            /\ cs[i].valid
                            /\ Cardinality({m \in 1..i : cs[m].valid}) = k
                 IN  cs[i].cookie]
                \o ValidPairs(Tail(lines))

\* C17: Request.Cookies() returns every valid name=value pair of the Cookie
\* header lines, over all lines and all semicolon-delimited pairs, in header
\* order; no valid pair is left out because another pair of its line is empty
\* or malformed, nor because the line begins with a semicolon.
C17_CookiesReturnsEveryValidPair ==
    \A k \in CallsOf("Cookies") : calls[k].cookies = ValidPairs(CookieLines)

\* A pair of the line with no bytes at all that is followed by another pair.
EmptyPairInside(line) ==
    LET ps == SplitPairs(TrimString(line))
    IN  \E k \in 1..(Len(ps) - 1) : ps[k] = <<>>

\* A pair of the line that breaks the name rule or the value rule.
ViolatingPair(line) ==
    LET ps == SplitPairs(TrimString(line))
    IN  \E k \in DOMAIN ps : TrimString(ps[k]) # <<>> /\ ~PairCookie(ps[k]).valid

\* C18: every cookie returned by Cookie or Cookies has a non-empty name of
\* token characters only and a value whose bytes are all in 0x20..0x7E and
\* none of double quote, semicolon, backslash.  No call fails because of a
\* pair that breaks a rule: the pair is left out and the pairs after it are
\* still read (on lines where no pair is empty, which is another matter,
\* Cookies returns exactly the valid pairs).
C18_OnlyValidCookies ==
    \A k \in DOMAIN calls :
        calls[k].op \in {"Cookie", "Cookies"} =>
            /\ \A i \in DOMAIN calls[k].cookies :
                   LET c == calls[k].cookies[i]
                   IN  /\ c.Name # <<>>
                       /\ Range(c.Name) \subseteq TokenBytes
                       /\ Range(c.Value) \subseteq ValueBytes
            /\ calls[k].err \in {NilErr, ErrNoCookie}
            /\ (calls[k].op = "Cookies"
                  /\ \A l \in DOMAIN CookieLines : ~EmptyPairInside(CookieLines[l]))
                   => calls[k].cookies = ValidPairs(CookieLines)

\* a@=1;b=2: the first pair has a name that is no token, the second is
\* returned.
C18_Witness ==
    \E k \in CallsOf("Cookies") :
        /\ CookieLines = <<<<"a", "@", "=", "1", ";", "b", "=", "2">>>>
        /\ ViolatingPair(CookieLines[1])
        /\ calls[k].cookies = <<[Name |-> <<"b">>, Value |-> <<"2">>]>>

-----------------------------------------------------------------------------
\* The header set the handler's Response asks for: its headers, and one
\* Set-Cookie value per cookie, in order.
HandlerHeader(r) ==
    LET cs == [i \in DOMAIN h[r].rsp.Cookies |-> CookieString(h[r].rsp.Cookies[i])]
    IN  IF cs = <<>> THEN h[r].rsp.Headers
        ELSE MapSet(h[r].rsp.Headers, "Set-Cookie", cs)

\* The events of request r that come before its status is committed.
BeforeStatus(r) ==
    LET k == CHOOSE k \in DOMAIN events[r] : events[r][k].e = "status"
    IN  SubSeq(events[r], 1, k - 1)

\* C24: when the Serializer fails, the headers and cookies of the handler's
\* Response are untouched: once the status is committed it is 500, and before
\* that every header value and every cookie of the handler's Response has
\* been put on the transport, the cookies in the Response's order, exactly as
\* for a Serializer that succeeds.
C24_HeadersAndCookiesOnFailure ==
    \A r \in InFlight :
        (HasSerializer(r) /\ w[r].status # 0) =>
            /\ SerializerFails(r) => w[r].status = StatusInternalServerError
            /\ rsp[r].Headers = h[r].rsp.Headers
            /\ rsp[r].Cookies = h[r].rsp.Cookies
            /\ w[r].header = HandlerHeader(r)
            /\ {ev.arg : ev \in {x \in Range(BeforeStatus(r)) : x.e = "header"}}
                   = DOMAIN h[r].rsp.Headers
            /\ SelectSeq(BeforeStatus(r), LAMBDA ev : ev.e = "cookie")
                   = [i \in DOMAIN h[r].rsp.Cookies |->
                        Event("cookie", h[r].rsp.Cookies[i].Name)]

\* A failing Serializer on a 404 with two headers and two cookies: status
\* 500 committed with all of them on the transport.
C24_Witness ==
    \E r \in InFlight :
        /\ SerializerFails(r)
        /\ h[r].rsp.Status = StatusNotFound
        /\ w[r].status = StatusInternalServerError
        /\ DOMAIN h[r].rsp.Headers = {"X", "Y"}
        /\ Len(h[r].rsp.Cookies) = 2
        /\ DOMAIN w[r].header = {"X", "Y", "Set-Cookie"}
        /\ Len(w[r].header["Set-Cookie"]) = 2

\* C29: a Response whose Data is unset is handled like any other: the
\* pipeline does not fault at the serializer step, and once it is through a
\* status has been committed and one Log record emitted.
C29_UnsetDataHandled ==
    \A r \in InFlight :
        ~HasSerializer(r) =>
            /\ pc[r] # "panicked"
            /\ pc[r] = "done" \/ ENABLED PipelineStep(r)
            /\ pc[r] = "done" => w[r].status # 0 /\ Len(LogsOf(r)) = 1

-----------------------------------------------------------------------------
\* C27: invoking a String or Bytes Serializer does not change what a later
\* invocation yields: every invocation that is followed by a write of the
\* producer it returned puts out the complete bytes, the second as the first.
C27_RepeatedInvocation ==
    ser.kind \in {"String", "Bytes"} =>
        \A k \in Writes :
            (k > 1 /\ outs[k - 1].op = "invoke") => outs[k].bytes = ser.arg

-----------------------------------------------------------------------------
\* Two derivations of the same kind from the base Response r, into a and
\* then into b.
TwoFromBase(op) ==
    /\ Len(hist) = 2
    /\ hist[1].op = op /\ hist[1].src = "r" /\ hist[1].dst = "a"
    /\ hist[2].op = op /\ hist[2].src = "r" /\ hist[2].dst = "b"

\* C28: two derivations from one base are independent.  After
\* a := r.WithLogging(x) and b := r.WithLogging(y), a's Logging is r's values
\* followed by x and b's is r's values followed by y, whatever the capacity
\* of r's slice; the same holds for WithCookies.  Building b leaves a as it
\* was.
C28_DerivationsIndependent ==
    /\ TwoFromBase("WithLogging") =>
           /\ View(heap, regs["a"]).Logging = hist[1].pre.Logging \o hist[1].arg
           /\ View(heap, regs["b"]).Logging = hist[1].pre.Logging \o hist[2].arg
    /\ TwoFromBase("WithCookies") =>
           /\ View(heap, regs["a"]).Cookies = hist[1].pre.Cookies \o hist[1].arg
           /\ View(heap, regs["b"]).Cookies = hist[1].pre.Cookies \o hist[2].arg

-----------------------------------------------------------------------------
\* Concurrent requests (SpecConc): net/http runs Handler.HTTP's closure in
\* one goroutine per request; the steps of the requests interleave freely and
\* all of them call the one log function.

ConcurrentRequests == {1, 2}

\* Request 1 is for /a and request 2 for /b, each with or without a
\* Content-Length.
ConcRequests ==
    [Method : {"GET"}, URL : {"/a", "/b"},
     Header : {EmptyMap, [k \in {"Content-Length"} |-> <<<<"2">>>>]},
     Body   : {Stream(MaxBody)}]

\* Four unlike Responses: a plain 200, a 404 whose Serializer fails, a 200
\* whose template fails after output, a 404 with no Serializer.
ConcResponses ==
    { [Status |-> StatusNotFound, Data |-> NilData, Logging |-> LogSeq(1),
       Headers |-> EmptyMap, Cookies |-> <<>>],
      [Status |-> StatusOK, Data |-> String(<<"h", "i">>), Logging |-> LogSeq(1),
       Headers |-> [k \in {"X"} |-> ValSeq(1)], Cookies |-> CookieSeq(1)],
      [Status |-> StatusNotFound, Data |-> JSONUnsupported, Logging |-> LogSeq(2),
       Headers |-> EmptyMap, Cookies |-> <<>>],
      [Status |-> StatusOK, Data |-> TemplateFailing(<<"<", "p">>),
       Logging |-> <<>>, Headers |-> [k \in {"Y"} |-> <<"w">>],
       Cookies |-> CookieSeq(2)] }

InitConc ==
    /\ InitPipeline(ConcurrentRequests, ConcRequests, [rsp : ConcResponses])
    /\ req[1].URL = "/a"
    /\ req[2].URL = "/b"
    /\ RespIdle
    /\ LibIdle

SpecConc == InitConc /\ [][Next]_vars

\* What the Log record of request r must hold as its Message: the handler's
\* Logging, or on a Serializer failure the one record around it.
ExpectedLogging(r) ==
    IF SerializerFails(r)
    THEN <<[Context         |-> "Error serializing response data",
            Error           |-> Invoke(h[r].rsp.Data).err,
            OriginalLogging |-> h[r].rsp.Logging]>>
    ELSE h[r].rsp.Logging

\* The body request r's transport is to receive.
ExpectedBody(r) ==
    IF SerializerFails(r) THEN FallbackBody ELSE Invoke(h[r].rsp.Data).writerTo.bytes

\* The Log record rec is request r's own, field by field.
RecordOf(rec, r) ==
    /\ rec.Method = req[r].Method
    /\ rec.URL = req[r].URL
    /\ rec.RequestHeaders = req[r].Header
    /\ rec.Status = FinalStatus(r)
    /\ rec.Message = ExpectedLogging(r)
    /\ rec.ResponseHeaders = HandlerHeader(r)
    /\ rec.WriteError = err[r]

Finished(r) == pc[r] \in {"done", "panicked"}

-----------------------------------------------------------------------------
\* SpecLog: the LogFunc returned by JSONLog(w), called with values that
\* json.Marshal accepts and values it rejects, on a writer whose Write can
\* fail after any number of bytes.

MaxLogCalls == 2

\* err.Error() of the errors of json.Marshal, byte by byte.
ErrorText(e) ==
    CASE e = "json: unsupported type: chan int" ->
        <<"j", "s", "o", "n", ":", " ", "u", "n", "s", "u", "p", "p", "o",
          "r", "t", "e", "d", " ", "t", "y", "p", "e", ":", " ", "c", "h",
          "a", "n", " ", "i", "n", "t">>
      [] e = "json: error calling MarshalJSON for type main.marshalErrorer: Sentinel error" ->
        <<"j", "s", "o", "n", ":", " ", "e", "r", "r", "o", "r", " ", "c",
          "a", "l", "l", "i", "n", "g", " ", "M", "a", "r", "s", "h", "a",
          "l", "J", "S", "O", "N", " ", "f", "o", "r", " ", "t", "y", "p",
          "e", " ", "m", "a", "i", "n", ".", "m", "a", "r", "s", "h", "a",
          "l", "E", "r", "r", "o", "r", "e", "r", ":", " ", "S", "e", "n",
          "t", "i", "n", "e", "l", " ", "e", "r", "r", "o", "r">>

\* The addresses a channel is printed with.
Addresses == {<<"0", "x", "c", "1">>, <<"0", "x", "c", "2">>}

\* spew's dump of one value at an indentation: the type in parentheses, then
\* the value; a string is quoted (the texts dumped here need no escaping), a
\* channel is its address, the elements of a slice (cap = len) follow one per
\* line, one space deeper, separated by commas.
RECURSIVE SdumpValue(_, _, _)
SdumpValue(v, addr, indent) ==
    LET RECURSIVE Elems(_, _)
        Elems(es, k) ==
            IF k > Len(es) THEN <<>>
            ELSE indent \o <<" ">> \o SdumpValue(es[k], addr, indent \o <<" ">>)
                    \o (IF k < Len(es) THEN <<",">> ELSE <<>>) \o <<"\n">>
                    \o Elems(es, k + 1)
    IN  CASE v.t = "int" -> <<"(", "i", "n", "t", ")", " ">> \o Itoa(v.n)
          [] v.t = "string" ->
                <<"(", "s", "t", "r", "i", "n", "g", ")", " ", "(", "l",
                  "e", "n", "=">> \o Itoa(Len(v.s))
                    \o <<")", " ", "\"">> \o v.s \o <<"\"">>
          [] v.t = "chan" -> <<"(", "c", "h", "a", "n", " ", "i", "n", "t", ")", " ">> \o addr
          [] v.t = "marshalErrorer" ->
                <<"(", "m", "a", "i", "n", ".", "m", "a", "r", "s", "h",
                  "a", "l", "E", "r", "r", "o", "r", "e", "r", ")", " ", "{">>
                    \o <<"\n">> \o indent \o <<"}">>
          [] v.t = "slice" ->
                <<"(", "[", "]", "i", "n", "t", "e", "r", "f", "a", "c",
                  "e", " ", "{", "}", ")", " ", "(", "l", "e", "n", "=">> \o Itoa(Len(v.vs))
                    \o <<" ", "c", "a", "p", "=">> \o Itoa(Len(v.vs))
                    \o <<")", " ", "{", "\n">> \o Elems(v.vs, 1)
                    \o indent \o <<"}">>

\* spew.Sdump(v)
Sdump(v, addr) == SdumpValue(v, addr, <<>>) \o <<"\n">>

\* What a Write of the underlying io.Writer does: it takes all the bytes, or
\* it takes the first n of them and returns an error.
WriterOutcomes ==
    {[fail |-> FALSE, n |-> 0], [fail |-> TRUE, n |-> 0], [fail |-> TRUE, n |-> 1]}

\* w.Write(p): [p (the bytes taken), err]
WriterWrite(p, wo) ==
    IF wo.fail THEN [p |-> Prefix(p, Min(wo.n, Len(p))), err |-> "write failed"]
    ELSE [p |-> p, err |-> NoErr]

\* The record written in place of a value that cannot be encoded.
DiagnosticRecord(debugData, e) ==
    StructV(<<[key |-> <<"c", "o", "n", "t", "e", "x", "t">>,
               val |-> StrV(<<"E", "r", "r", "o", "r", " ", "m", "a", "r", "s", "h",
                  "a", "l", "i", "n", "g", " ", "'", "d", "e", "b", "u",
                  "g", "D", "a", "t", "a", "'", " ", "i", "n", "t", "o",
                  " ", "J", "S", "O", "N">>)],
              [key |-> <<"d", "e", "b", "u", "g", "D", "a", "t", "a">>,
               val |-> StrV(debugData)],
              [key |-> <<"e", "r", "r", "o", "r">>, val |-> StrV(ErrorText(e))]>>)

\* One call of the closure JSONLog(w) returns, as [w, stderr, wrote, werr]:
\* the writer's bytes and the standard logger's lines after it, the bytes
\* this call wrote, and the error of its Fprintf.
JSONLogSkipOnError(st, v, addr, wo) ==
    LET first == Marshal(v)
        wr    == WriterWrite(first.bytes \o <<"\n">>, wo)
    IN  IF first.err # NoErr
        THEN [w |-> st.w, stderr |-> st.stderr, wrote |-> <<>>, werr |-> NoErr]
        ELSE [w      |-> st.w \o wr.p,
              stderr |-> IF wr.err # NoErr
                         THEN Append(st.stderr, [msg |-> "ERROR WRITING TO LOGGER:",
                                                 err |-> wr.err])
                         ELSE st.stderr,
              wrote  |-> wr.p,
              werr   |-> wr.err]

JSONLog(st, v, addr, wo) ==
    LET first  == Marshal(v)
        second == IF first.err # NoErr
                  THEN Marshal(DiagnosticRecord(Sdump(v, addr), first.err))
                  ELSE first
        wr     == WriterWrite(second.bytes \o <<"\n">>, wo)
    IN  IF second.err # NoErr
        THEN [w      |-> st.w,
              stderr |-> Append(st.stderr,
                                [msg |-> "ERROR MARSHALLING THE MARSHALLING ERROR!:",
                                 err |-> second.err]),
              wrote  |-> <<>>,
              werr   |-> NoErr]
        ELSE [w      |-> st.w \o wr.p,
              stderr |-> IF wr.err # NoErr
                         THEN Append(st.stderr, [msg |-> "ERROR WRITING TO LOGGER:",
                                                 err |-> wr.err])
                         ELSE st.stderr,
              wrote  |-> wr.p,
              werr   |-> wr.err]

\* The values logged: encodable ones (a text with a line feed, a quote and a
\* backslash in it among them) and ones json.Marshal rejects, at the top and
\* inside a slice.
LogInputs ==
    { IntV(7), NullV, StrV(<<"a", "\n", "\"", "\\">>),
      ArrV(<<IntV(1), StrV(<<"h", "i">>)>>),
      StructV(<<[key |-> <<"k">>, val |-> StrV(<<"\t">>)]>>),
      ChanV, MarshalErrorerV,
      ArrV(<<StrV(<<"h", "i">>), ChanV>>),
      ArrV(<<MarshalErrorerV, IntV(1)>>) }

RECURSIVE HasChan(_)
HasChan(v) ==
    \/ v.t = "chan"
    \/ v.t = "slice" /\ \E k \in DOMAIN v.vs : HasChan(v.vs[k])

\* A call of the LogFunc: the whole closure runs.
JSONLogCall ==
    /\ Len(jlog.calls) < MaxLogCalls
    /\ \E v \in LogInputs, addr \in Addresses, wo \in WriterOutcomes :
         /\ ~HasChan(v) => addr = <<"0", "x", "c", "1">>
         /\ \E r \in {JSONLog(jlog, v, addr, wo)} :
                jlog' = [w      |-> r.w,
                         stderr |-> r.stderr,
                         calls  |-> Append(jlog.calls,
                                           [v |-> v, addr |-> addr, wo |-> wo,
                                            wrote |-> r.wrote, werr |-> r.werr])]
    /\ UNCHANGED <<pipeVars, respVars, serVars, helperVars, reqVars, prom, herr>>

InitLog == Idle

NextLog == JSONLogCall

SpecLog == InitLog /\ [][NextLog]_vars

\* The bytes of the calls k.. of the sink, in order.
RECURSIVE WroteFrom(_)
WroteFrom(k) ==
    IF k > Len(jlog.calls) THEN <<>> ELSE jlog.calls[k].wrote \o WroteFrom(k + 1)

\* C21: the sink never faults.  Every call returns and the sink can be called
\* again; a call whose write succeeds has written exactly one record, ended
\* by the only line feed in it, which is valid JSON: the encoding of the
\* value, or, when the value cannot be encoded, the diagnostic record with
\* the context, the dump of the value and the text of the error; a call
\* whose write fails leaves one line on the standard logger and nothing
\* else; the writer holds what the calls wrote, in order.
C21_JSONLogNeverFaults ==
    /\ \A i \in DOMAIN jlog.calls :
         LET c   == jlog.calls[i]
             rec == Prefix(c.wrote, Len(c.wrote) - 1)
         IN  /\ c.werr = NoErr =>
                  /\ c.wrote # <<>>
                  /\ c.wrote[Len(c.wrote)] = "\n"
                  /\ \A k \in DOMAIN rec : rec[k] # "\n"
                  /\ \A m \in {Marshal(c.v)}, d \in {Unmarshal(rec, "interface{}")} :
                       /\ d.err = NilErr
                       /\ m.err = NoErr => rec = m.bytes
                       /\ m.err # NoErr =>
                            d.v = DiagnosticRecord(Sdump(c.v, c.addr), m.err)
             /\ c.werr # NoErr => c.wo.fail /\ Len(c.wrote) <= c.wo.n
    /\ jlog.w = WroteFrom(1)
    /\ Len(jlog.stderr) = Cardinality({i \in DOMAIN jlog.calls :
                                         jlog.calls[i].werr # NoErr})
    /\ \A k \in DOMAIN jlog.stderr : jlog.stderr[k].msg = "ERROR WRITING TO LOGGER:"
    /\ Len(jlog.calls) < MaxLogCalls => ENABLED JSONLogCall

\* A call whose write failed, and after it a call with a slice holding a
\* channel, which wrote the diagnostic record.
C21_Witness ==
    \E i, j \in DOMAIN jlog.calls :
        /\ i < j
        /\ jlog.calls[i].werr # NoErr
        /\ jlog.calls[j].v = ArrV(<<StrV(<<"h", "i">>), ChanV>>)
        /\ jlog.calls[j].werr = NoErr
        /\ jlog.calls[j].wrote # <<>>

-----------------------------------------------------------------------------
\* SpecProm: PromRouter.Register on a list of routes, then requests served
\* through the handlers it registered.

MaxRoutes == 2
MaxServes == 2

\* The handlers of the caller's routes, by name, and the requests served.
PromHandlers == {"ha", "hb", "hc"}
PromRequests == {"x", "y"}

\* What each of the caller's handlers returns for a request.
HandlerRsp(id, q) ==
    [Status  |-> CASE id = "ha" -> StatusOK
                   [] id = "hb" -> StatusNotFound
                   [] id = "hc" -> IF q = "x" THEN StatusOK
                                   ELSE StatusInternalServerError,
     Data    |-> String(<<id, q>>),
     Logging |-> <<[value |-> id]>>,
     Headers |-> IF id = "ha" THEN EmptyMap ELSE [k \in {"X"} |-> <<id>>],
     Cookies |-> IF id = "hb" THEN <<>> ELSE CookieSeq(1)]

\* A Handler value: one of the caller's functions, or the closure Register
\* makes, which refers to the variable `route` it captured.
OrigHandler(id) == [kind |-> "orig", id |-> id]
Wrapper(cell) == [kind |-> "wrap", cell |-> cell]

RouteUniverse ==
    { [Method |-> "GET", Path |-> "/a", Handler |-> OrigHandler("ha")],
      [Method |-> "POST", Path |-> "/b", Handler |-> OrigHandler("hb")],
      [Method |-> "GET", Path |-> "/c", Handler |-> OrigHandler("hc")] }

\* The route lists registered: one to MaxRoutes distinct routes.
RouteLists ==
    UNION { {l \in [1..n -> RouteUniverse] :
                \A i, j \in 1..n : i # j => l[i] # l[j]} : n \in 1..MaxRoutes }

\* What `for i, route := range routes` declares: one variable `route` for
\* the whole loop (Go before 1.22), or a new one in each iteration (Go 1.22
\* and later with a go directive that says so).  The sources carry no go.mod.
LoopVarSemantics == {"perLoop", "perIteration"}

\* The loop of Register from iteration i on.  cells are the variables
\* `route` that exist; iteration i copies routes[i] into its variable, then
\* stores in routes[i].Handler a closure over that variable.
RECURSIVE RegisterLoop(_, _, _, _)
RegisterLoop(routes, cells, i, sem) ==
    IF i > Len(routes) THEN [routes |-> routes, cells |-> cells]
    ELSE LET cell == IF sem = "perLoop" THEN 1 ELSE i
             cs   == IF cell > Len(cells) THEN Append(cells, routes[i])
                     ELSE [cells EXCEPT ![cell] = routes[i]]
         IN  RegisterLoop([routes EXCEPT ![i].Handler = Wrapper(cell)],
                          cs, i + 1, sem)

\* PromRouter.Register(log, routes...): the loop, then Router.Register of
\* the routes as the loop left them.
PromRegister(routes, sem) ==
    LET l == RegisterLoop(routes, <<>>, 1, sem)
    IN  [routes |-> l.routes, cells |-> l.cells, mux |-> l.routes]

\* A call of a Handler value: [rsp, invoked, observed], the Response, the
\* caller's handlers that ran, and the observations made on Durations.
InvokeHandler(cells, hd, q) ==
    IF hd.kind = "orig"
    THEN [rsp |-> HandlerRsp(hd.id, q), invoked |-> <<hd.id>>, observed |-> <<>>]
    ELSE LET route == cells[hd.cell]
             r     == HandlerRsp(route.Handler.id, q)
         IN  [rsp      |-> r,
              invoked  |-> <<route.Handler.id>>,
              observed |-> <<[path |-> route.Path, status |-> r.Status]>>]

InitProm ==
    /\ InitPipeline({}, Requests, Handlers)
    /\ RespIdle
    /\ ser = NilData
    /\ readers = <<>>
    /\ prod = [ref |-> 0, err |-> NoErr]
    /\ outs = <<>>
    /\ hcall = [helper |-> "none"]
    /\ hrsp = ZeroResponse
    /\ rq = [Headers |-> EmptyMap, Body |-> [data |-> <<>>, failAfter |-> 0 - 1]]
    /\ calls = <<>>
    /\ jlog = [w |-> <<>>, stderr |-> <<>>, calls |-> <<>>]
    /\ herr = [pc |-> "none"]
    /\ \E l \in RouteLists, sem \in LoopVarSemantics :
         prom = [pc |-> "new", given |-> l, sem |-> sem, routes |-> l,
                 cells |-> <<>>, mux |-> <<>>, served |-> <<>>]

\* pm.Register(log, routes...)
Register ==
    /\ prom.pc = "new"
    /\ LET g == PromRegister(prom.routes, prom.sem)
       IN  prom' = [prom EXCEPT !.pc = "registered", !.routes = g.routes,
                                !.cells = g.cells, !.mux = g.mux]
    /\ UNCHANGED <<pipeVars, respVars, serVars, helperVars, reqVars, jlog, herr>>

\* A request q that the mux matches to its k-th route: the registered
\* handler runs.
ServeRoute ==
    /\ prom.pc = "registered"
    /\ Len(prom.served) < MaxServes
    /\ \E k \in DOMAIN prom.mux, q \in PromRequests :
         LET c == InvokeHandler(prom.cells, prom.mux[k].Handler, q)
         IN  prom' = [prom EXCEPT !.served =
                         Append(@, [k |-> k, q |-> q, rsp |-> c.rsp,
                                    invoked |-> c.invoked,
                                    observed |-> c.observed])]
    /\ UNCHANGED <<pipeVars, respVars, serVars, helperVars, reqVars, jlog, herr>>

NextProm ==
    \/ Register
    \/ ServeRoute

SpecProm == InitProm /\ [][NextProm]_vars

\* C22: a request matched to route k runs route k's own handler exactly
\* once, makes one observation labelled with route k's path and the returned
\* status, and returns that handler's Response unchanged.
C22_PromRouterPreservesHandler ==
    \A i \in DOMAIN prom.served :
        LET s    == prom.served[i]
            mine == prom.given[s.k]
        IN  /\ s.invoked = <<mine.Handler.id>>
            /\ s.observed = <<[path |-> mine.Path, status |-> s.rsp.Status]>>
            /\ s.rsp = HandlerRsp(mine.Handler.id, s.q)

\* The same with a variable `route` of its own in each iteration.
PromRouterPerIteration ==
    prom.pc # "none" /\ prom.sem = "perIteration" => C22_PromRouterPreservesHandler

-----------------------------------------------------------------------------
\* SpecErr: one call HandleError(message, err, logging...), its unwrap loop
\* taken one iteration at a time.

MaxErrs == 3

\* The error values in memory, by reference (0 is nil).  An "error" is a
\* value of some error type: its Unwrap method returns next (a type without
\* the method has next = 0), and nothing prevents the references of such
\* values from forming a cycle.  An "http" is a *HTTPError: next is its
\* Cause_, which it exposes through Cause() and not through Unwrap(); the
\* Cause_ of an HTTPError refers to a value built before it.
ErrObjects(i) ==
    {[kind |-> "error", next |-> n, Status |-> 0, text |-> "e" \o ToString(i)] :
        n \in 0..MaxErrs}
    \cup {[kind |-> "http", next |-> n, Status |-> 400 + i,
           text |-> "m" \o ToString(i)] : n \in {0} \cup (i + 1)..MaxErrs}

ErrHeaps == {hp \in [1..MaxErrs -> UNION {ErrObjects(i) : i \in 1..MaxErrs}] :
                \A i \in 1..MaxErrs : hp[i] \in ErrObjects(i)}

\* errors.Unwrap(err): the result of err's Unwrap method, nil without one.
Unwrap(errs, e) == IF errs[e].kind = "error" THEN errs[e].next ELSE 0

\* err.Error(): the text of the value; HTTPError.Error() is Message, or
\* Message, a colon and the cause's text.
RECURSIVE ErrorString(_, _)
ErrorString(errs, e) ==
    IF errs[e].kind = "http" /\ errs[e].next # 0
    THEN errs[e].text \o ": " \o ErrorString(errs, errs[e].next)
    ELSE errs[e].text

\* One pass through the body of `for`: [cause, break].
LoopStepBreakAtOnce(errs, cause) == [cause |-> cause, break |-> TRUE]

LoopStep(errs, cause) ==
    LET unwrapped == Unwrap(errs, cause)
    IN  IF unwrapped # 0 THEN [cause |-> unwrapped, break |-> FALSE]
        ELSE [cause |-> cause, break |-> TRUE]

\* The struct appended to logging.
ErrorNote(message, text) == [Message |-> message, Error |-> text]

\* A []interface{} passed as ONE argument of a variadic function.
SliceValue(s) == [slice |-> s]

\* JSON(httpErr)
HTTPErrorData(errs, e) ==
    JSONSerializer(<<>>, StructV(<<[key |-> <<"s", "t", "a", "t", "u", "s">>,
                                   val |-> IntV(errs[e].Status)],
                                  [key |-> <<"m", "e", "s", "s", "a", "g", "e">>,
                                   val |-> StrV(<<errs[e].text>>)]>>)).ser

\* What follows the loop: the Response returned for the cause found.
HandleErrorResponse(errs, cause, logging) ==
    IF errs[cause].kind = "http"
    THEN [Status |-> errs[cause].Status, Data |-> HTTPErrorData(errs, cause),
          Logging |-> logging, Headers |-> EmptyMap, Cookies |-> <<>>]
    ELSE InternalServerError(<<SliceValue(logging)>>)

InitErr ==
    /\ InitPipeline({}, Requests, Handlers)
    /\ RespIdle
    /\ ser = NilData
    /\ readers = <<>>
    /\ prod = [ref |-> 0, err |-> NoErr]
    /\ outs = <<>>
    /\ hcall = [helper |-> "none"]
    /\ hrsp = ZeroResponse
    /\ rq = [Headers |-> EmptyMap, Body |-> [data |-> <<>>, failAfter |-> 0 - 1]]
    /\ calls = <<>>
    /\ jlog = [w |-> <<>>, stderr |-> <<>>, calls |-> <<>>]
    /\ prom = [pc |-> "none"]
    /\ \E hp \in ErrHeaps, n \in {0, MaxLogLen} :
         herr = [pc |-> "start", errs |-> hp, err |-> 1, message |-> "msg",
                 given |-> LogSeq(n), logging |-> LogSeq(n), cause |-> 0,
                 rsp |-> ZeroResponse]

\* logging = append(logging, struct{...}{message, err.Error()}); cause := err
HandleErrorEnter ==
    /\ herr.pc = "start"
    /\ herr' = [herr EXCEPT
                  !.pc = "loop",
                  !.logging = Append(@, ErrorNote(herr.message,
                                                  ErrorString(herr.errs, herr.err))),
                  !.cause = herr.err]
    /\ UNCHANGED <<pipeVars, respVars, serVars, helperVars, reqVars, jlog, prom>>

\* An iteration that ends in `continue`.
UnwrapContinue ==
    /\ herr.pc = "loop"
    /\ LET s == LoopStep(herr.errs, herr.cause)
       IN  /\ ~s.break
           /\ herr' = [herr EXCEPT !.cause = s.cause]
    /\ UNCHANGED <<pipeVars, respVars, serVars, helperVars, reqVars, jlog, prom>>

\* The iteration that ends in `break`, and the rest of the function.
HandleErrorReturn ==
    /\ herr.pc = "loop"
    /\ LET s == LoopStep(herr.errs, herr.cause)
       IN  /\ s.break
           /\ herr' = [herr EXCEPT
                         !.pc = "done",
                         !.rsp = HandleErrorResponse(herr.errs, s.cause,
                                                     herr.logging)]
    /\ UNCHANGED <<pipeVars, respVars, serVars, helperVars, reqVars, jlog, prom>>

NextErr ==
    \/ HandleErrorEnter
    \/ UnwrapContinue
    \/ HandleErrorReturn

SpecErr == InitErr /\ [][NextErr]_vars

\* The goroutine that called HandleError keeps running.
SpecErrLive == SpecErr /\ WF_vars(NextErr)

\* The errors reached from e by at most n steps of Unwrap, e included.
RECURSIVE UnwrapChain(_, _, _)
UnwrapChain(errs, e, n) ==
    IF n = 0 \/ Unwrap(errs, e) = 0 THEN {e}
    ELSE {e} \cup UnwrapChain(errs, Unwrap(errs, e), n - 1)

\* err's chain is finite and acyclic: it reaches an error with nothing to
\* unwrap.
Acyclic ==
    herr.pc # "none" /\
    \E e \in UnwrapChain(herr.errs, herr.err, MaxErrs) : Unwrap(herr.errs, e) = 0

Cyclic == herr.pc # "none" /\ ~Acyclic

Returned == herr.pc = "done"

\* C25: for an err whose chain is finite and acyclic the loop ends, at the
\* error of the chain that has nothing more to unwrap, and HandleError
\* returns; for a cyclic chain HandleError never returns.
C25_UnwrapLoopTerminates ==
    /\ Acyclic ~> (Returned /\ herr.cause \in UnwrapChain(herr.errs, herr.err, MaxErrs)
                            /\ Unwrap(herr.errs, herr.cause) = 0)
    /\ [](Cyclic => ~Returned)
    /\ [](Cyclic /\ herr.pc = "loop" => ENABLED UnwrapContinue)

\* HandleError returned after unwrapping twice.
C25_Witness ==
    /\ Returned
    /\ Cardinality(UnwrapChain(herr.errs, herr.err, MaxErrs)) = MaxErrs
    /\ Unwrap(herr.errs, herr.cause) = 0
    /\ herr.cause # herr.err

\* C26: whatever the cause is, the Response's Logging is the caller's
\* logging values in order, then the one record with message and err.Error().
C26_LoggingFlatInBothBranches ==
    Returned =>
        herr.rsp.Logging =
            Append(herr.given, ErrorNote(herr.message,
                                         ErrorString(herr.errs, herr.err)))

\* The same for a cause that implements Error.
HandleErrorLoggingOfHTTPError ==
    Returned /\ herr.errs[herr.cause].kind = "http" =>
        herr.rsp.Logging =
            Append(herr.given, ErrorNote(herr.message,
                                         ErrorString(herr.errs, herr.err)))

====
